---- MODULE Spec2Model ----
(***************************************************************************)
(* Traffic-control plane of project-gateway: the Performance Monitor, the  *)
(* Gatekeeper control loop and the canary routing middleware, modelled     *)
(* from src/src/monitoring/mod.rs, src/src/gatekeeper/mod.rs and           *)
(* src/src/middleware/canary.rs.                                           *)
(*                                                                         *)
(* f64 values that the code only compares are integers here (latencies are *)
(* as_millis(), percentages come from the configuration); f64 values the   *)
(* code obtains by a division are exact fractions [num, den] with den >= 0 *)
(* where den = 0 stands for the IEEE results of a division by zero         *)
(* (+inf, -inf, NaN).                                                      *)
(***************************************************************************)
EXTENDS Integers, Sequences, FiniteSets

(***************************************************************************)
(* Bounds of the model                                                     *)
(***************************************************************************)
\* requests recorded per backend
MaxRecords == 2
\* last instant of the modelled clock, in seconds
MaxTime == 300
\* seconds by which the modelled clock advances in one step
ClockStep == 150
\* webhook POSTs sent in one behaviour
MaxPosts == 2
\* file-modification events handled in one behaviour
MaxEvents == 2
\* requests entering the mirror middleware in one behaviour
MaxMirrorRequests == 2
\* latencies pushed per backend by the recorder threads in one behaviour
MaxPushes == 2
\* the windows whose percentiles are computed have every length up to this
\* one, next to the 100-sample window (a window holds up to WindowCap samples)
MaxWindowLen == 20

(***************************************************************************)
(* Option<T>: None is the empty sequence, Some(v) the one-element sequence *)
(***************************************************************************)
None == <<>>
Some(v) == <<v>>
IsSome(o) == o # <<>>
Unwrap(o) == o[1]

Max(a, b) == IF a >= b THEN a ELSE b
Min(a, b) == IF a <= b THEN a ELSE b

(***************************************************************************)
(* f64 results of divisions                                                *)
(***************************************************************************)
Rat(n, d) == [num |-> n, den |-> d]
FromInt(i) == Rat(i, 1)
IsNaN(a) == a.den = 0 /\ a.num = 0
IsFinite(a) == a.den # 0
\* IEEE "<": false when either side is NaN
Lt(a, b) ==
    /\ ~IsNaN(a)
    /\ ~IsNaN(b)
    /\ IF a.den = 0 /\ b.den = 0
         THEN a.num < 0 /\ b.num > 0
         ELSE a.num * b.den < b.num * a.den
Gt(a, b) == Lt(b, a)
Ge(a, b) == ~IsNaN(a) /\ ~IsNaN(b) /\ ~Lt(a, b)
Le(a, b) == Ge(b, a)
FAbs(a) == Rat(IF a.num < 0 THEN 0 - a.num ELSE a.num, a.den)

(***************************************************************************)
(* Strings the code inspects are sequences of characters                   *)
(***************************************************************************)
UpperChars == <<"A","B","C","D","E","F","G","H","I","J","K","L","M",
                "N","O","P","Q","R","S","T","U","V","W","X","Y","Z">>
LowerChars == <<"a","b","c","d","e","f","g","h","i","j","k","l","m",
                "n","o","p","q","r","s","t","u","v","w","x","y","z">>
LowerChar(c) ==
    IF \E i \in 1..26 : UpperChars[i] = c
      THEN LowerChars[CHOOSE i \in 1..26 : UpperChars[i] = c]
      ELSE c
\* str::to_lowercase on a visible-ASCII string
to_lowercase(s) == [i \in 1..Len(s) |-> LowerChar(s[i])]
\* str::starts_with
starts_with(s, p) == Len(s) >= Len(p) /\ SubSeq(s, 1, Len(p)) = p

STR_rust == <<"r","u","s","t">>
STR_legacy == <<"l","e","g","a","c","y">>
STR_new == <<"n","e","w">>
STR_http == <<"h","t","t","p">>

(***************************************************************************)
(* Configuration (src/src/config/mod.rs)                                   *)
(***************************************************************************)
Percentages == {0, 1, 50, 100}
Steps == {60}
MaxErrorsValues == {50}
WebhookUrls == { <<>>, <<"h","t","t","p",":","/","/","w">> }

CanaryRolloutConfig ==
    [enabled : BOOLEAN,
     rollout_percentage : Percentages,
     step : Steps,
     max_errors : MaxErrorsValues,
     webhook_url : WebhookUrls]
MirrorTimeouts == {5000}
MirrorConfig == [enabled : BOOLEAN, timeout_ms : MirrorTimeouts]
AppConfig == [canary_rollout : CanaryRolloutConfig, mirror : MirrorConfig]

(***************************************************************************)
(* State                                                                   *)
(***************************************************************************)
VARIABLES
    config,            \* ConfigWatcher.config: the current snapshot
    now,               \* the clock read by Instant::now(), in seconds
    rust_latencies,    \* PerformanceMonitor fields
    legacy_latencies,
    rust_errors,
    legacy_errors,
    rust_requests,
    legacy_requests,
    baseline,
    last_rollback,     \* Gatekeeper.last_rollback
    status,            \* the GatekeeperStatus last returned by check_health
    gk_log,            \* the last rollout change logged by the Gatekeeper
    webhook_posts,     \* payloads POSTed to the webhook, oldest first
    canary_req,        \* the request inside canary_routing_middleware
    response,          \* the last response the middleware returned
    gateway_metrics,   \* metrics::GATEWAY_METRICS counters
    initial_config,    \* the snapshot ConfigWatcher::new was given
    rw_lock,           \* the RwLock around ConfigWatcher.config
    reloads,           \* one entry per file-modification event, oldest first
    reads,             \* the get_config calls in progress, per caller
    subscribers,       \* the broadcast receivers and what they hold
    swap_order,        \* the reloads that replaced the snapshot, in order
    mirror_reqs,       \* the requests that entered mirror_middleware
    mirror_metrics,    \* metrics::MIRROR_METRICS counters
    legacy_outbound,   \* the last request built for the legacy gateway
    recorders,         \* the threads inside PerformanceMonitor::record_request
    arrivals,          \* per backend, every latency pushed, oldest first
    metrics_result,    \* what get_current_metrics last returned, and for whom
    validation_result, \* what validate_performance last returned to the
                       \* monitoring loop of the Performance Monitor
    calls,             \* the reading calls of the Performance Monitor in
                       \* progress, per calling thread
    monitor_locks,     \* the owner of each Mutex of the Performance Monitor
    app_layers,        \* the middleware layers create_app put on the router
    pipeline           \* the request on its way through those layers

monitor_vars == <<rust_latencies, legacy_latencies, rust_errors, legacy_errors,
                  rust_requests, legacy_requests, baseline>>
gatekeeper_vars == <<last_rollback, status, gk_log, webhook_posts>>
canary_vars == <<canary_req, response, gateway_metrics>>
store_vars == <<initial_config, rw_lock, reloads, reads, subscribers,
                swap_order>>
mirror_vars == <<mirror_reqs, mirror_metrics, legacy_outbound>>
recorder_vars == <<recorders, arrivals>>
probe_vars == <<metrics_result, validation_result>>
call_vars == <<calls, monitor_locks>>
app_vars == <<app_layers, pipeline>>
ext_vars == <<store_vars, mirror_vars, recorder_vars, probe_vars, call_vars,
              app_vars>>
vars == <<config, now, monitor_vars, gatekeeper_vars, canary_vars, ext_vars>>

(***************************************************************************)
(* Performance Monitor (src/src/monitoring/mod.rs)                         *)
(***************************************************************************)
WindowCap == 1000
RustLatencies == {200}
LegacyLatencies == {100}
BaselineRustP99s == {50}
BaselineLegacyP99s == {100, 1000}

\* sort_by(partial_cmp), a stable ascending merge sort
\* the merge of two ascending runs around the middle element of a: the
\* elements of b that are smaller go before it, the others behind it
RECURSIVE Merge(_, _)
Merge(a, b) ==
    IF a = <<>> THEN b
    ELSE IF b = <<>> THEN a
    ELSE LET mid == (Len(a) + 1) \div 2
             cut == Cardinality({j \in 1..Len(b) : b[j] < a[mid]})
         IN  Merge(SubSeq(a, 1, mid - 1), SubSeq(b, 1, cut))
                 \o <<a[mid]>>
                 \o Merge(SubSeq(a, mid + 1, Len(a)), SubSeq(b, cut + 1, Len(b)))
RECURSIVE SortAsc(_)
SortAsc(s) ==
    IF Len(s) <= 1 THEN s
    ELSE LET half == Len(s) \div 2
         IN  Merge(SortAsc(SubSeq(s, 1, half)),
                   SortAsc(SubSeq(s, half + 1, Len(s))))
RECURSIVE SumSeq(_)
SumSeq(s) ==
    IF s = <<>> THEN 0
    ELSE IF Len(s) = 1 THEN s[1]
    ELSE LET half == Len(s) \div 2
         IN  SumSeq(SubSeq(s, 1, half)) + SumSeq(SubSeq(s, half + 1, Len(s)))

\* latencies.push(x); drain the oldest beyond the last 1000
PushWindow_keeps_oldest(latencies, x) ==
    LET pushed == Append(latencies, x)
    IN  IF Len(pushed) > WindowCap THEN SubSeq(pushed, 1, WindowCap)
        ELSE pushed
PushWindow(latencies, x) ==
    LET pushed == Append(latencies, x)
        len == Len(pushed)
    IN  IF len > WindowCap THEN SubSeq(pushed, len - WindowCap + 1, len) ELSE pushed

get_system_metrics == [cpu_usage |-> 15, memory_usage |-> 128]

\* the error rate left as a fraction of 1
error_rate_fraction(error_count, request_count) ==
    IF request_count > 0
      THEN Rat(error_count, request_count)
      ELSE FromInt(0)

\* (error_count / request_count) * 100.0, or 0.0 without requests
error_rate_percent(error_count, request_count) ==
    IF request_count > 0
      THEN Rat(error_count * 100, request_count)
      ELSE FromInt(0)

\* ((len as f64) * 0.99) as usize and ((len as f64) * 0.95) as usize: the
\* product truncated toward zero.  For every len in 1..WindowCap the f64
\* product truncates to the same integer as (len * percent) div 100.
percentile_index_nearest_rank(len, percent) ==
    Max(((len * percent + 99) \div 100) - 1, 0)
percentile_index(len, percent) == (len * percent) \div 100

calculate_metrics(latencies, request_count, error_count) ==
    IF latencies = <<>> THEN None
    ELSE LET sorted_latencies == SortAsc(latencies)
             len == Len(sorted_latencies)
         IN  Some([request_count |-> request_count,
                   p99_latency_ms |-> sorted_latencies[percentile_index(len, 99) + 1],
                   p95_latency_ms |-> sorted_latencies[percentile_index(len, 95) + 1],
                   p50_latency_ms |-> sorted_latencies[(len \div 2) + 1],
                   avg_latency_ms |-> Rat(SumSeq(sorted_latencies), len),
                   error_rate |-> error_rate_percent(error_count, request_count),
                   cpu_usage_percent |-> get_system_metrics.cpu_usage,
                   memory_usage_mb |-> get_system_metrics.memory_usage])

get_current_metrics(gateway_type) ==
    IF gateway_type = "rust"
      THEN calculate_metrics(rust_latencies, rust_requests, rust_errors)
    ELSE IF gateway_type = "legacy"
      THEN calculate_metrics(legacy_latencies, legacy_requests, legacy_errors)
    ELSE None

\* PerformanceValidation::default()
PerformanceValidationDefault_latency_met ==
    [latency_improvement_percent |-> FromInt(0),
     memory_improvement_percent |-> FromInt(0),
     cpu_improvement_percent |-> FromInt(0),
     error_rate_rust |-> FromInt(0),
     error_rate_legacy |-> FromInt(0),
     meets_latency_target |-> TRUE,
     meets_resource_target |-> FALSE,
     meets_error_target |-> TRUE,
     overall_success |-> FALSE]
PerformanceValidationDefault ==
    [latency_improvement_percent |-> FromInt(0),
     memory_improvement_percent |-> FromInt(0),
     cpu_improvement_percent |-> FromInt(0),
     error_rate_rust |-> FromInt(0),
     error_rate_legacy |-> FromInt(0),
     meets_latency_target |-> FALSE,
     meets_resource_target |-> FALSE,
     meets_error_target |-> TRUE,
     overall_success |-> FALSE]

\* ((base - cur) / base) * 100
ImprovementPercent(base, cur) == Rat((base - cur) * 100, base)

\* overall_success: the three gates together
overall_success_without_errors(latency_improvement, memory_improvement, cpu_improvement, error_rate) ==
    /\ Ge(latency_improvement, FromInt(50))
    /\ (Ge(memory_improvement, FromInt(70)) \/ Ge(cpu_improvement, FromInt(70)))
overall_success(latency_improvement, memory_improvement, cpu_improvement, error_rate) ==
    /\ Ge(latency_improvement, FromInt(50))
    /\ (Ge(memory_improvement, FromInt(70)) \/ Ge(cpu_improvement, FromInt(70)))
    /\ Le(error_rate, Rat(1, 2))

\* the Mutex fields of the PerformanceMonitor
MonitorMutexes ==
    {"rust_latencies", "legacy_latencies", "rust_requests", "legacy_requests",
     "rust_errors", "legacy_errors", "baseline"}
latencies_of(gateway_type) ==
    IF gateway_type = "rust" THEN "rust_latencies" ELSE "legacy_latencies"
requests_of(gateway_type) ==
    IF gateway_type = "rust" THEN "rust_requests" ELSE "legacy_requests"
errors_of(gateway_type) ==
    IF gateway_type = "rust" THEN "rust_errors" ELSE "legacy_errors"
\* lock() returns at once only when no thread holds the guard
MutexFree(mutex) == monitor_locks[mutex] = None

\* the match of validate_performance on the three values it has read
validate_match(rust_metrics, legacy_metrics, stored_baseline) ==
        IF IsSome(rust_metrics) /\ IsSome(legacy_metrics) /\ IsSome(stored_baseline)
          THEN LET rust == Unwrap(rust_metrics)
                   legacy == Unwrap(legacy_metrics)
                   bl == Unwrap(stored_baseline).legacy_metrics
                   latency_improvement ==
                       IF rust.p99_latency_ms > 0
                         THEN ImprovementPercent(bl.p99_latency_ms, rust.p99_latency_ms)
                         ELSE FromInt(0)
                   memory_improvement ==
                       IF rust.memory_usage_mb > 0
                         THEN ImprovementPercent(bl.memory_usage_mb, rust.memory_usage_mb)
                         ELSE FromInt(0)
                   cpu_improvement ==
                       IF rust.cpu_usage_percent > 0
                         THEN ImprovementPercent(bl.cpu_usage_percent, rust.cpu_usage_percent)
                         ELSE FromInt(0)
               IN  [latency_improvement_percent |-> latency_improvement,
                    memory_improvement_percent |-> memory_improvement,
                    cpu_improvement_percent |-> cpu_improvement,
                    error_rate_rust |-> rust.error_rate,
                    error_rate_legacy |-> legacy.error_rate,
                    meets_latency_target |-> Ge(latency_improvement, FromInt(50)),
                    meets_resource_target |-> Ge(memory_improvement, FromInt(70))
                                              \/ Ge(cpu_improvement, FromInt(70)),
                    meets_error_target |-> Le(rust.error_rate, Rat(1, 2)),
                    overall_success |->
                        overall_success(latency_improvement, memory_improvement,
                                        cpu_improvement, rust.error_rate)]
          ELSE PerformanceValidationDefault

\* validate_performance: the two current metrics, then the baseline
validate_performance ==
    validate_match(get_current_metrics("rust"), get_current_metrics("legacy"), baseline)

\* the effect of record_request on the monitor's fields: the match on
\* gateway_type, each arm taking its locks
RecordInto_one_window(gateway_type, latency_ms, is_error) ==
    /\ legacy_latencies' = PushWindow(legacy_latencies, latency_ms)
    /\ legacy_requests' = legacy_requests + 1
    /\ legacy_errors' = IF is_error THEN legacy_errors + 1 ELSE legacy_errors
    /\ UNCHANGED <<rust_latencies, rust_requests, rust_errors>>
RecordInto(gateway_type, latency_ms, is_error) ==
    IF gateway_type = "rust"
      THEN /\ rust_latencies' = PushWindow(rust_latencies, latency_ms)
           /\ rust_requests' = rust_requests + 1
           /\ rust_errors' = IF is_error THEN rust_errors + 1 ELSE rust_errors
           /\ UNCHANGED <<legacy_latencies, legacy_requests, legacy_errors>>
    ELSE IF gateway_type = "legacy"
      THEN /\ legacy_latencies' = PushWindow(legacy_latencies, latency_ms)
           /\ legacy_requests' = legacy_requests + 1
           /\ legacy_errors' = IF is_error THEN legacy_errors + 1 ELSE legacy_errors
           /\ UNCHANGED <<rust_latencies, rust_requests, rust_errors>>
    ELSE UNCHANGED <<rust_latencies, rust_requests, rust_errors,
                     legacy_latencies, legacy_requests, legacy_errors>>

\* a PerformanceMetrics value handed to set_baseline
BaselineMetrics(p99) ==
    [request_count |-> 1, p99_latency_ms |-> p99, p95_latency_ms |-> p99,
     p50_latency_ms |-> p99, avg_latency_ms |-> FromInt(p99),
     error_rate |-> FromInt(0), cpu_usage_percent |-> 60, memory_usage_mb |-> 512]

\* legacy.p99 / rust.p99, or 1.0 when legacy.p99 is not positive
improvement_factor(rust_metrics, legacy_metrics) ==
    IF legacy_metrics.p99_latency_ms > 0
      THEN Rat(legacy_metrics.p99_latency_ms, rust_metrics.p99_latency_ms)
      ELSE FromInt(1)

(***************************************************************************)
(* Gatekeeper (src/src/gatekeeper/mod.rs)                                  *)
(***************************************************************************)
rollback_cooldown == 300
LatencyDegradationThreshold == 10

REASON_error_rate == "Error rate exceeds threshold"
REASON_latency == "Latency degraded (threshold: 10%)"
ManualReasons == {"manual"}

\* the cooldown still in force at exactly 300 s
in_cooldown_inclusive ==
    IF IsSome(last_rollback)
      THEN now - Unwrap(last_rollback) <= rollback_cooldown
      ELSE FALSE

\* last.elapsed() < self.rollback_cooldown
in_cooldown ==
    IF IsSome(last_rollback)
      THEN now - Unwrap(last_rollback) < rollback_cooldown
      ELSE FALSE

\* error_rate > config.canary_rollout.max_errors
error_rate_exceeds(error_rate, max_errors) == Gt(error_rate, FromInt(max_errors))

\* the degradation is the absolute value of a negative improvement
latency_degradation(latency_improvement_percent) ==
    IF Lt(latency_improvement_percent, FromInt(0))
      THEN FAbs(latency_improvement_percent)
      ELSE FromInt(0)

\* latency_degradation_percent > 10.0
latency_exceeds_inclusive(latency_degradation_percent) ==
    Ge(latency_degradation_percent, FromInt(LatencyDegradationThreshold))
latency_exceeds(latency_degradation_percent) ==
    Gt(latency_degradation_percent, FromInt(LatencyDegradationThreshold))

\* the flag left for the monitoring loop to set
rollback_triggered_by_loop(is_healthy, rollback_reason) == FALSE

\* rollback_triggered: !is_healthy && rollback_reason.is_some()
rollback_triggered(is_healthy, rollback_reason) == ~is_healthy /\ IsSome(rollback_reason)

check_health ==
    LET cfg == config.canary_rollout
        validation == validate_performance
        error_rate == validation.error_rate_rust
        error_exceeded == error_rate_exceeds(error_rate, cfg.max_errors)
        latency_degradation_percent ==
            latency_degradation(validation.latency_improvement_percent)
        latency_exceeded == latency_exceeds(latency_degradation_percent)
        cooldown == in_cooldown
        is_healthy == IF cooldown THEN TRUE
                      ELSE ~error_exceeded /\ ~latency_exceeded
        rollback_reason ==
            IF cooldown THEN None
            ELSE IF latency_exceeded THEN Some(REASON_latency)
            ELSE IF error_exceeded THEN Some(REASON_error_rate)
            ELSE None
    IN  [error_rate |-> error_rate,
         latency_degradation_percent |-> latency_degradation_percent,
         is_healthy |-> is_healthy,
         rollback_reason |-> rollback_reason,
         rollback_triggered |-> rollback_triggered(is_healthy, rollback_reason),
         current_rollout_percentage |-> cfg.rollout_percentage]

\* the target floored at 0 instead of 1
rollback_percentage_floor0(current_percentage, step) == Max(current_percentage - step, 0)

\* rollback_percentage = (current_percentage - step).max(1.0)
rollback_percentage(current_percentage, step) == Max(current_percentage - step, 1)

\* new_percentage = (current_percentage + step).min(100.0)
advance_percentage(current_percentage, step) == Min(current_percentage + step, 100)

\* the timestamp trigger_rollback stores in last_rollback
RollbackStamp == Some(now)

\* what send().await of the POST gives: a success status, another status,
\* or a transport error
AlertOutcomes == {"success", "status", "error"}

\* the line send_rollback_alert logs
alert_log(outcome) ==
    IF starts_with(config.canary_rollout.webhook_url, STR_http)
      THEN CASE outcome = "success" -> "Rollback alert sent successfully"
             [] outcome = "status" -> "Failed to send rollback alert"
             [] OTHER -> "Error sending rollback alert"
      ELSE "Webhook URL not configured, skipping alert"

\* send_rollback_alert: one POST when the webhook URL starts with "http";
\* the outcome of the POST is logged and changes nothing else
send_rollback_alert_retries(reason, from_percentage, to_percentage) ==
    IF starts_with(config.canary_rollout.webhook_url, STR_http)
      THEN webhook_posts' =
               webhook_posts \o <<[reason |-> reason, from |-> from_percentage,
                                   to |-> to_percentage],
                                  [reason |-> reason, from |-> from_percentage,
                                   to |-> to_percentage]>>
      ELSE UNCHANGED webhook_posts
send_rollback_alert(reason, from_percentage, to_percentage) ==
    IF starts_with(config.canary_rollout.webhook_url, STR_http)
      THEN /\ webhook_posts' = Append(webhook_posts,
                                      [reason |-> reason,
                                       from |-> from_percentage,
                                       to |-> to_percentage])
      ELSE UNCHANGED webhook_posts

\* trigger_rollback: stamps last_rollback, computes the target, alerts and
\* logs; the configuration is not written
trigger_rollback(reason) ==
    LET current_percentage == config.canary_rollout.rollout_percentage
        target == rollback_percentage(current_percentage, config.canary_rollout.step)
    IN  /\ last_rollback' = RollbackStamp
        /\ send_rollback_alert(reason, current_percentage, target)
        /\ \E outcome \in AlertOutcomes :
               gk_log' = [reason |-> reason,
                          from |-> current_percentage, to |-> target,
                          event |-> "ROLLBACK EXECUTED", alert |-> alert_log(outcome)]
        /\ UNCHANGED config

\* whether the loop body of start_monitoring calls trigger_rollback
TickTriggers(st) ==
    ~st.is_healthy /\ ~st.rollback_triggered /\ IsSome(st.rollback_reason)

RollbackBudget == Len(webhook_posts) < MaxPosts

\* one iteration of the loop of start_monitoring
GatekeeperTick ==
    LET st == check_health
    IN  /\ status' = Some(st)
        /\ IF TickTriggers(st)
             THEN /\ RollbackBudget
                  /\ trigger_rollback(Unwrap(st.rollback_reason))
             ELSE UNCHANGED <<config, last_rollback, gk_log, webhook_posts>>
        /\ UNCHANGED <<now, monitor_vars, canary_vars, ext_vars>>

get_status ==
    /\ status' = Some(check_health)
    /\ UNCHANGED <<config, now, monitor_vars, last_rollback, gk_log,
                   webhook_posts, canary_vars, ext_vars>>

force_rollback(reason) ==
    /\ RollbackBudget
    /\ trigger_rollback(reason)
    /\ UNCHANGED <<now, monitor_vars, status, canary_vars, ext_vars>>

advance_rollout ==
    LET current_percentage == config.canary_rollout.rollout_percentage
        new_percentage == advance_percentage(current_percentage,
                                             config.canary_rollout.step)
    IN  /\ gk_log' = IF new_percentage > current_percentage
                       THEN [from |-> current_percentage,
                             to |-> new_percentage, event |-> "ROLLOUT ADVANCED"]
                       ELSE [event |-> "Rollout already at 100%"]
        /\ UNCHANGED <<config, now, monitor_vars, last_rollback, status,
                       webhook_posts, canary_vars, ext_vars>>

\* PerformanceMonitor::record_request called directly
record_request(gateway_type, latency_ms, is_error) ==
    /\ rust_requests < MaxRecords
    /\ legacy_requests < MaxRecords
    /\ RecordInto(gateway_type, latency_ms, is_error)
    /\ UNCHANGED <<config, now, baseline, gatekeeper_vars, canary_vars, ext_vars>>

set_baseline(rust_metrics, legacy_metrics) ==
    /\ MutexFree("baseline")
    /\ baseline' = Some([rust_metrics |-> rust_metrics,
                         legacy_metrics |-> legacy_metrics,
                         improvement_factor |->
                             improvement_factor(rust_metrics, legacy_metrics)])
    /\ UNCHANGED <<config, now, rust_latencies, legacy_latencies, rust_errors,
                   legacy_errors, rust_requests, legacy_requests,
                   gatekeeper_vars, canary_vars, ext_vars>>

\* time passes
AdvanceClock ==
    /\ now + ClockStep <= MaxTime
    /\ now' = now + ClockStep
    /\ UNCHANGED <<config, monitor_vars, gatekeeper_vars, canary_vars, ext_vars>>

(***************************************************************************)
(* Canary routing middleware (src/src/middleware/canary.rs)                *)
(***************************************************************************)
LegacyTimeoutSecs == 30

\* characters HeaderValue::to_str accepts
VisibleAscii ==
    {UpperChars[i] : i \in 1..26} \cup {LowerChars[i] : i \in 1..26}
        \cup {"-", "_", " ", "0", "1"}
\* HeaderValue::to_str(...).ok()
to_str(v) == IF \A i \in 1..Len(v) : v[i] \in VisibleAscii THEN Some(v) ELSE None

\* values of the trigger header on a request; None: the header is absent
HeaderInputs ==
    {None,
     Some(STR_rust), Some(<<"R","u","s","t">>), Some(<<"R","U","S","T">>),
     Some(STR_new), Some(<<"N","E","W">>),
     Some(STR_legacy), Some(<<"L","e","g","a","c","y">>),
     Some(<<"L","E","G","A","C","Y">>),
     Some(<<"o","l","d">>), Some(<<"r","u","s","t","0xE9">>)}
\* values of random_value * 100.0, in [0, 100)
RandomValues == {0, 1, 49, 50, 99}
StatusCodes == {200, 500, 600}

\* headers.get(trigger_header).and_then(|v| v.to_str().ok())
\*        .map(|v| v.to_lowercase() == word).unwrap_or(false)
HeaderForces(header, word) ==
    IF IsSome(header) /\ IsSome(to_str(Unwrap(header)))
      THEN to_lowercase(Unwrap(to_str(Unwrap(header)))) = word
      ELSE FALSE
\* the header value compared without lowering its case
force_rust_case_sensitive(header) ==
    IF IsSome(header) /\ IsSome(to_str(Unwrap(header)))
      THEN Unwrap(to_str(Unwrap(header))) = STR_rust
      ELSE FALSE
force_rust(header) == HeaderForces(header, STR_rust)
force_legacy_case_sensitive(header) ==
    IF IsSome(header) /\ IsSome(to_str(Unwrap(header)))
      THEN Unwrap(to_str(Unwrap(header))) = STR_legacy
      ELSE FALSE
force_legacy(header) == HeaderForces(header, STR_legacy)

\* whether a random draw is made for this header
DrawsRandom(header) == ~force_rust(header) /\ ~force_legacy(header)

\* the draw compared with <= instead of <
should_use_rust_inclusive(random_value, rollout_percentage) ==
    random_value <= rollout_percentage

\* random_value * 100.0 < rollout_percentage
should_use_rust(random_value, rollout_percentage) == random_value < rollout_percentage

use_rust_gateway(header, random_value, rollout_percentage) ==
    IF force_rust(header) THEN TRUE
    ELSE IF force_legacy(header) THEN FALSE
    ELSE should_use_rust(random_value, rollout_percentage)

\* the routing decision made without looking at canary_rollout.enabled
canary_target_always_routes(cfg, header, random_value) ==
    IF use_rust_gateway(header, random_value, cfg.rollout_percentage)
      THEN "handler"
    ELSE "legacy"

\* where canary_routing_middleware sends the request: "handler" is
\* next.run(request), "legacy" is route_to_legacy_gateway
canary_target(cfg, header, random_value) ==
    IF ~cfg.enabled THEN "handler"
    ELSE IF use_rust_gateway(header, random_value, cfg.rollout_percentage)
      THEN "handler"
    ELSE "legacy"

\* metrics::record_gateway_request
record_gateway_request(m, gateway_type, status_code) ==
    [requests_total |-> m.requests_total + 1,
     errors_5xx_total |-> IF status_code >= 500 THEN m.errors_5xx_total + 1
                          ELSE m.errors_5xx_total,
     rust_requests_total |-> IF gateway_type = "rust" THEN m.rust_requests_total + 1
                             ELSE m.rust_requests_total,
     legacy_requests_total |-> IF gateway_type = "legacy"
                                 THEN m.legacy_requests_total + 1
                                 ELSE m.legacy_requests_total]

\* status.is_server_error()
is_server_error_unbounded(status_code) == status_code >= 500
is_server_error(status_code) == status_code >= 500 /\ status_code <= 599

\* entry of canary_routing_middleware up to the routing decision: the
\* request then waits for next.run ("handler") or for the legacy gateway
CanaryEnter(header, random_value) ==
    /\ canary_req = None
    /\ rust_requests + legacy_requests < MaxRecords
    /\ LET snapshot == config
           cfg == snapshot.canary_rollout
       IN  canary_req' =
             Some([config |-> snapshot,
                   header |-> header,
                   random_value |-> IF cfg.enabled /\ DrawsRandom(header)
                                      THEN Some(random_value) ELSE None,
                   recorded |-> cfg.enabled,
                   awaiting |-> canary_target(cfg, header, random_value)])
    /\ UNCHANGED <<config, now, monitor_vars, gatekeeper_vars, response,
                   gateway_metrics, ext_vars>>

\* next.run(request) returns: the response is passed on; on the canary
\* path it is recorded for the Rust gateway first
CanaryHandlerReturns(status_code, latency_ms) ==
    /\ IsSome(canary_req)
    /\ Unwrap(canary_req).awaiting = "handler"
    /\ IF Unwrap(canary_req).recorded
         THEN /\ RecordInto("rust", latency_ms, is_server_error(status_code))
              /\ gateway_metrics' =
                     record_gateway_request(gateway_metrics, "rust", status_code)
         ELSE UNCHANGED <<rust_latencies, rust_requests, rust_errors,
                          legacy_latencies, legacy_requests, legacy_errors,
                          gateway_metrics>>
    /\ response' = Some([status |-> status_code, backend |-> "rust",
                         request |-> Unwrap(canary_req)])
    /\ canary_req' = None
    /\ UNCHANGED <<config, now, baseline, gatekeeper_vars, ext_vars>>

LegacyOutcomes ==
    [status : StatusCodes, kind : {"response"}, body_ok : BOOLEAN]
        \cup {[kind |-> "transport_error"], [kind |-> "timeout"]}

\* route_to_legacy_gateway once the proxied call has ended
CanaryLegacyReturns(outcome, latency_ms) ==
    /\ IsSome(canary_req)
    /\ Unwrap(canary_req).awaiting = "legacy"
    /\ IF outcome.kind = "response"
         THEN /\ RecordInto("legacy", latency_ms, is_server_error(outcome.status))
              /\ LET m1 == record_gateway_request(gateway_metrics, "legacy",
                                                  outcome.status)
                 IN  gateway_metrics' =
                         IF outcome.body_ok THEN m1
                         ELSE record_gateway_request(m1, "legacy", 500)
              /\ response' = Some([status |-> IF outcome.body_ok
                                                THEN outcome.status ELSE 502,
                                   backend |-> "legacy",
                                   request |-> Unwrap(canary_req)])
         ELSE /\ RecordInto("legacy", latency_ms, TRUE)
              /\ LET code == IF outcome.kind = "timeout" THEN 504 ELSE 502
                 IN  /\ gateway_metrics' =
                             record_gateway_request(gateway_metrics, "legacy", code)
                     /\ response' = Some([status |-> code, backend |-> "legacy",
                                          request |-> Unwrap(canary_req)])
    /\ canary_req' = None
    /\ UNCHANGED <<config, now, baseline, gatekeeper_vars, ext_vars>>

(***************************************************************************)
(* Config Store (src/src/config/watcher.rs)                                *)
(*                                                                         *)
(* The snapshot is an AppConfig behind a tokio RwLock.  An assignment to   *)
(* it and a clone of it copy the value section by section, so a write is   *)
(* two steps (canary_rollout, then mirror) and so is a read; what keeps    *)
(* them apart is the lock.                                                 *)
(***************************************************************************)
ReaderIds == {1}
SubscriberIds == {1, 2}

\* the snapshots AppConfig::load() can return for the file: the fields are
\* deserialised as f64 and not compared with any range
FileConfigs ==
    {[canary_rollout |-> [enabled |-> TRUE, rollout_percentage |-> 50,
                          step |-> 60, max_errors |-> 50,
                          webhook_url |-> <<>>],
      mirror |-> [enabled |-> FALSE, timeout_ms |-> 5000]],
     [canary_rollout |-> [enabled |-> TRUE, rollout_percentage |-> 150,
                          step |-> 0, max_errors |-> 50,
                          webhook_url |-> <<>>],
      mirror |-> [enabled |-> TRUE, timeout_ms |-> 5000]]}
\* Result<AppConfig>: None is Err
LoadResults == {None} \cup {Some(c) : c \in FileConfigs}

\* where handle.spawn puts the reload task: on the runtime of the calling
\* thread, on a Runtime::new() whose owner is dropped at the end of the
\* closure that made it (a shut-down runtime never polls the task), or
\* nowhere when no runtime could be built
RuntimeHandles == {"current", "dropped_runtime", "none"}

Range(s) == {s[i] : i \in DOMAIN s}

\* self.config.read(): shared, refused while a writer holds the lock
can_read_unlocked == TRUE
can_read == ~rw_lock.writer
\* config_clone.write(): exclusive
can_write == ~rw_lock.writer /\ rw_lock.readers = {}

\* the match on AppConfig::load(): Ok starts the reload thread, Err logs
reload_entry_keeps_going(load_result) ==
    IF IsSome(load_result)
      THEN [loaded |-> load_result, pc |-> "thread"]
      ELSE [loaded |-> Some(CHOOSE c \in FileConfigs : c # initial_config),
            pc |-> "thread"]
reload_entry(load_result) ==
    IF IsSome(load_result)
      THEN [loaded |-> load_result, pc |-> "thread"]
      ELSE [loaded |-> None, pc |-> "load_failed"]

\* the watcher callback on an event whose kind is a modification
FileModified(load_result) ==
    /\ Len(reloads) < MaxEvents
    /\ reloads' = Append(reloads,
                         [loaded |-> reload_entry(load_result).loaded,
                          pc |-> reload_entry(load_result).pc,
                          load_ok |-> IsSome(load_result)])
    /\ UNCHANGED <<config, now, monitor_vars, gatekeeper_vars, app_vars, call_vars, canary_vars, probe_vars,
                   initial_config, rw_lock, reads, subscribers, swap_order,
                   mirror_vars, recorder_vars>>

\* the body of the thread spawned for a loaded snapshot
ReloadThread(i, handle) ==
    /\ i \in DOMAIN reloads
    /\ reloads[i].pc = "thread"
    /\ reloads' = [reloads EXCEPT ![i].pc =
                       CASE handle = "current" -> "task"
                         [] handle = "dropped_runtime" -> "never_polled"
                         [] OTHER -> "no_runtime"]
    /\ UNCHANGED <<config, now, monitor_vars, gatekeeper_vars, app_vars, call_vars, canary_vars, probe_vars,
                   initial_config, rw_lock, reads, subscribers, swap_order,
                   mirror_vars, recorder_vars>>

\* the reload task takes the write lock and starts the assignment
ReloadWriteBegin(i) ==
    /\ i \in DOMAIN reloads
    /\ reloads[i].pc = "task"
    /\ can_write
    /\ rw_lock' = [rw_lock EXCEPT !.writer = TRUE]
    /\ config' = [config EXCEPT !.canary_rollout =
                                    Unwrap(reloads[i].loaded).canary_rollout]
    /\ reloads' = [reloads EXCEPT ![i].pc = "writing"]
    /\ UNCHANGED <<now, monitor_vars, gatekeeper_vars, app_vars, call_vars, canary_vars, probe_vars,
                   initial_config, reads, subscribers, swap_order,
                   mirror_vars, recorder_vars>>

\* the assignment ends and the guard is dropped
ReloadWriteEnd(i) ==
    /\ i \in DOMAIN reloads
    /\ reloads[i].pc = "writing"
    /\ config' = [config EXCEPT !.mirror = Unwrap(reloads[i].loaded).mirror]
    /\ rw_lock' = [rw_lock EXCEPT !.writer = FALSE]
    /\ swap_order' = Append(swap_order, i)
    /\ reloads' = [reloads EXCEPT ![i].pc = "swapped"]
    /\ UNCHANGED <<now, monitor_vars, gatekeeper_vars, app_vars, call_vars, canary_vars, probe_vars,
                   initial_config, reads, subscribers, mirror_vars,
                   recorder_vars>>

\* reload_tx.send: every receiver gets the snapshot; Err when there is none
ReloadSend(i) ==
    /\ i \in DOMAIN reloads
    /\ reloads[i].pc = "swapped"
    /\ LET receivers == {s \in SubscriberIds : IsSome(subscribers[s])}
       IN  /\ subscribers' =
                 [s \in SubscriberIds |->
                     IF s \in receivers
                       THEN Some(Append(Unwrap(subscribers[s]),
                                        Unwrap(reloads[i].loaded)))
                       ELSE subscribers[s]]
           /\ reloads' = [reloads EXCEPT ![i].pc =
                              IF receivers = {} THEN "no_subscribers"
                              ELSE "published"]
    /\ UNCHANGED <<config, now, monitor_vars, gatekeeper_vars, app_vars, call_vars, canary_vars, probe_vars,
                   initial_config, rw_lock, reads, swap_order, mirror_vars,
                   recorder_vars>>

\* get_config: the read lock is taken and the clone starts
ReadBegin(r) ==
    /\ reads[r].pc = "idle"
    /\ can_read
    /\ rw_lock' = [rw_lock EXCEPT !.readers = @ \cup {r}]
    /\ reads' = [reads EXCEPT ![r] =
                    [canary_rollout |-> Some(config.canary_rollout),
                     pc |-> "cloning",
                     events |-> Len(reloads),
                     result |-> None]]
    /\ UNCHANGED <<config, now, monitor_vars, gatekeeper_vars, app_vars, call_vars, canary_vars, probe_vars,
                   initial_config, reloads, subscribers, swap_order,
                   mirror_vars, recorder_vars>>

\* get_config: the clone ends, the guard is dropped, the clone is returned
ReadEnd(r) ==
    /\ reads[r].pc = "cloning"
    /\ rw_lock' = [rw_lock EXCEPT !.readers = @ \ {r}]
    /\ reads' = [reads EXCEPT ![r] =
                    [canary_rollout |-> None,
                     pc |-> "idle",
                     events |-> reads[r].events,
                     result |-> Some([canary_rollout |->
                                          Unwrap(reads[r].canary_rollout),
                                      mirror |-> config.mirror])]]
    /\ UNCHANGED <<config, now, monitor_vars, gatekeeper_vars, app_vars, call_vars, canary_vars, probe_vars,
                   initial_config, reloads, subscribers, swap_order,
                   mirror_vars, recorder_vars>>

\* subscribe_to_reloads: a new receiver, holding nothing
subscribe_to_reloads_replays(s) ==
    /\ subscribers[s] = None
    /\ subscribers' = [subscribers EXCEPT ![s] =
                           Some([k \in 1..Len(swap_order) |->
                                    Unwrap(reloads[swap_order[k]].loaded)])]
    /\ UNCHANGED <<config, now, monitor_vars, gatekeeper_vars, app_vars, call_vars, canary_vars, probe_vars,
                   initial_config, rw_lock, reloads, reads, swap_order,
                   mirror_vars, recorder_vars>>
subscribe_to_reloads(s) ==
    /\ subscribers[s] = None
    /\ subscribers' = [subscribers EXCEPT ![s] = Some(<<>>)]
    /\ UNCHANGED <<config, now, monitor_vars, gatekeeper_vars, app_vars, call_vars, canary_vars, probe_vars,
                   initial_config, rw_lock, reloads, reads, swap_order,
                   mirror_vars, recorder_vars>>

\* reload_rx.recv() in the task of main: the oldest held snapshot is taken
ReloadReceived(s) ==
    /\ IsSome(subscribers[s])
    /\ Unwrap(subscribers[s]) # <<>>
    /\ subscribers' = [subscribers EXCEPT ![s] = Some(Tail(Unwrap(@)))]
    /\ UNCHANGED <<config, now, monitor_vars, gatekeeper_vars, app_vars, call_vars, canary_vars, probe_vars,
                   initial_config, rw_lock, reloads, reads, swap_order,
                   mirror_vars, recorder_vars>>

InitStore ==
    /\ initial_config = config
    /\ rw_lock = [writer |-> FALSE, readers |-> {}]
    /\ reloads = <<>>
    /\ reads = [r \in ReaderIds |->
                   [canary_rollout |-> None, pc |-> "idle",
                    events |-> 0, result |-> None]]
    /\ subscribers = [s \in SubscriberIds |-> None]
    /\ swap_order = <<>>

(***************************************************************************)
(* Mirror middleware (src/src/middleware/mirror.rs) and the outbound       *)
(* request of the legacy proxy (src/src/middleware/canary.rs)              *)
(***************************************************************************)
\* a header map is a set of name/value pairs; HeaderName is lower case
Header(name, value) == [name |-> name, value |-> value]
InboundHeaderSets ==
    {{},
     {Header("host", "gw"), Header("accept", "json")},
     {Header("host", "gw"), Header("connection", "keep-alive"),
      Header("upgrade", "websocket"), Header("accept", "json")}}

\* the responses next.run(request) can produce
HandlerResponses ==
    {[status |-> 200, headers |-> {Header("content-type", "json")},
      body |-> "ok"],
     [status |-> 500, headers |-> {}, body |-> "error"]}

\* route_to_legacy_gateway: the headers of legacy_request
legacy_outbound_headers(headers) ==
    {h \in headers : /\ h.name # "host"
                     /\ h.name # "connection"
                     /\ h.name # "upgrade"}
        \cup {Header("x-routed-by", "Rust-Gateway-Canary")}

\* the spawned mirror task: the headers of mirror_request
mirror_outbound_headers(headers) ==
    {h \in headers : h.name # "host"}
        \cup {Header("x-mirrored-by", "Rust-Gateway")}

\* the Err arm of mirror_request.send().await
record_mirror_failure_counts_request(m) ==
    [m EXCEPT !.failures_total = @ + 1, !.requests_total = @ + 1]
record_mirror_failure(m) ==
    [m EXCEPT !.failures_total = @ + 1]

\* the Ok arm of mirror_request.send().await
record_mirror_success(m) ==
    [m EXCEPT !.requests_total = @ + 1, !.latency_observations = @ + 1]

\* the task state a request has when the middleware is entered: nothing
\* is spawned before next.run
task_on_entry_dispatched(mirror_config) ==
    IF mirror_config.enabled THEN "spawned" ELSE "none"
task_on_entry(mirror_config) == "none"

\* the middleware is entered: the snapshot is read and next.run is awaited
MirrorEnter(headers) ==
    /\ Len(mirror_reqs) < MaxMirrorRequests
    /\ mirror_reqs' = Append(mirror_reqs,
                             [pc |-> "handler",
                              headers |-> headers,
                              mirror_config |-> config.mirror,
                              handler_response |-> None,
                              returned |-> None,
                              task |-> task_on_entry(config.mirror),
                              outbound |-> None,
                              timeout_elapsed |-> FALSE])
    /\ UNCHANGED <<config, now, monitor_vars, gatekeeper_vars, app_vars, call_vars, canary_vars, probe_vars,
                   store_vars, mirror_metrics, legacy_outbound,
                   recorder_vars>>

\* next.run returns: with mirroring enabled the task is spawned and the
\* response is returned as it is; disabled, the response is just returned
MirrorHandlerReturns(i, handler_response) ==
    /\ i \in DOMAIN mirror_reqs
    /\ mirror_reqs[i].pc = "handler"
    /\ mirror_reqs' =
           [mirror_reqs EXCEPT
               ![i].pc = "done",
               ![i].handler_response = Some(handler_response),
               ![i].returned = Some(handler_response),
               ![i].task = IF mirror_reqs[i].mirror_config.enabled
                             THEN "spawned" ELSE @]
    /\ UNCHANGED <<config, now, monitor_vars, gatekeeper_vars, app_vars, call_vars, canary_vars, probe_vars,
                   store_vars, mirror_metrics, legacy_outbound,
                   recorder_vars>>

\* the mirror task builds mirror_request and calls send()
MirrorTaskSends(i) ==
    /\ i \in DOMAIN mirror_reqs
    /\ mirror_reqs[i].task = "spawned"
    /\ mirror_reqs' =
           [mirror_reqs EXCEPT
               ![i].task = "sending",
               ![i].outbound =
                   Some(mirror_outbound_headers(mirror_reqs[i].headers))]
    /\ UNCHANGED <<config, now, monitor_vars, gatekeeper_vars, app_vars, call_vars, canary_vars, probe_vars,
                   store_vars, mirror_metrics, legacy_outbound,
                   recorder_vars>>

\* send() returns Ok
MirrorTaskResponds(i) ==
    /\ i \in DOMAIN mirror_reqs
    /\ mirror_reqs[i].task = "sending"
    /\ mirror_reqs' = [mirror_reqs EXCEPT ![i].task = "completed"]
    /\ mirror_metrics' = record_mirror_success(mirror_metrics)
    /\ UNCHANGED <<config, now, monitor_vars, gatekeeper_vars, app_vars, call_vars, canary_vars, probe_vars,
                   store_vars, legacy_outbound, recorder_vars>>

\* send() returns Err
MirrorTaskFails(i) ==
    /\ i \in DOMAIN mirror_reqs
    /\ mirror_reqs[i].task = "sending"
    /\ mirror_reqs' = [mirror_reqs EXCEPT ![i].task = "failed"]
    /\ mirror_metrics' = record_mirror_failure(mirror_metrics)
    /\ UNCHANGED <<config, now, monitor_vars, gatekeeper_vars, app_vars, call_vars, canary_vars, probe_vars,
                   store_vars, legacy_outbound, recorder_vars>>

\* mirror.timeout_ms passes while send() is pending: the request was built
\* by reqwest::Client::new() without a timeout, and nothing reads the field
MirrorTimeoutPasses(i) ==
    /\ i \in DOMAIN mirror_reqs
    /\ mirror_reqs[i].task = "sending"
    /\ ~mirror_reqs[i].timeout_elapsed
    /\ mirror_reqs' = [mirror_reqs EXCEPT ![i].timeout_elapsed = TRUE]
    /\ UNCHANGED <<config, now, monitor_vars, gatekeeper_vars, app_vars, call_vars, canary_vars, probe_vars,
                   store_vars, mirror_metrics, legacy_outbound,
                   recorder_vars>>

\* route_to_legacy_gateway builds legacy_request from the inbound headers
LegacyRequestBuilt(headers) ==
    /\ legacy_outbound' = Some([headers |-> legacy_outbound_headers(headers),
                                inbound |-> headers])
    /\ UNCHANGED <<config, now, monitor_vars, gatekeeper_vars, app_vars, call_vars, canary_vars, probe_vars,
                   store_vars, mirror_reqs, mirror_metrics, recorder_vars>>

InitMirrorState ==
    /\ mirror_reqs = <<>>
    /\ mirror_metrics = [requests_total |-> 0, failures_total |-> 0,
                         latency_observations |-> 0]
    /\ legacy_outbound = None

(***************************************************************************)
(* PerformanceMonitor::record_request, lock by lock                        *)
(* (src/src/monitoring/mod.rs)                                             *)
(*                                                                         *)
(* A call takes the mutex of the window, then the mutex of the request     *)
(* counter, then the mutex of the error counter; other calls run between   *)
(* these three.                                                            *)
(***************************************************************************)
RecorderIds == {1, 2}
GatewayTypes == {"rust", "legacy"}
LatencySamples == {7, 9}
\* the length of the Rust window when the recorders start
WindowFill == WindowCap - 1

Window(gateway_type) ==
    IF gateway_type = "rust" THEN rust_latencies ELSE legacy_latencies
Pushes(gateway_type) ==
    IF gateway_type = "rust" THEN Len(arrivals.rust) - WindowFill
    ELSE Len(arrivals.legacy)

\* latencies.lock(): push, then drain the front beyond 1000
RecordPush(t, gateway_type, latency_ms, is_error) ==
    /\ recorders[t].pc = "idle"
    /\ Pushes(gateway_type) < MaxPushes
    /\ MutexFree(latencies_of(gateway_type))
    /\ IF gateway_type = "rust"
         THEN /\ rust_latencies' = PushWindow(rust_latencies, latency_ms)
              /\ UNCHANGED legacy_latencies
         ELSE /\ legacy_latencies' = PushWindow(legacy_latencies, latency_ms)
              /\ UNCHANGED rust_latencies
    /\ arrivals' = [arrivals EXCEPT ![gateway_type] = Append(@, latency_ms)]
    /\ recorders' = [recorders EXCEPT ![t] =
                        [gateway_type |-> gateway_type, is_error |-> is_error,
                         pc |-> "pushed"]]
    /\ UNCHANGED <<config, now, rust_errors, legacy_errors, rust_requests,
                   legacy_requests, baseline, gatekeeper_vars, app_vars, call_vars, canary_vars, probe_vars,
                   store_vars, mirror_vars>>

\* requests.lock(): *requests += 1
RecordCount(t) ==
    /\ recorders[t].pc = "pushed"
    /\ MutexFree(requests_of(recorders[t].gateway_type))
    /\ IF recorders[t].gateway_type = "rust"
         THEN /\ rust_requests' = rust_requests + 1
              /\ UNCHANGED legacy_requests
         ELSE /\ legacy_requests' = legacy_requests + 1
              /\ UNCHANGED rust_requests
    /\ recorders' = [recorders EXCEPT ![t].pc =
                        IF recorders[t].is_error THEN "counted" ELSE "idle"]
    /\ UNCHANGED <<config, now, rust_latencies, legacy_latencies, rust_errors,
                   legacy_errors, baseline, gatekeeper_vars, app_vars, call_vars, canary_vars, probe_vars,
                   store_vars, mirror_vars, arrivals>>

\* errors.lock(): *errors += 1
RecordError(t) ==
    /\ recorders[t].pc = "counted"
    /\ MutexFree(errors_of(recorders[t].gateway_type))
    /\ IF recorders[t].gateway_type = "rust"
         THEN /\ rust_errors' = rust_errors + 1
              /\ UNCHANGED legacy_errors
         ELSE /\ legacy_errors' = legacy_errors + 1
              /\ UNCHANGED rust_errors
    /\ recorders' = [recorders EXCEPT ![t].pc = "idle"]
    /\ UNCHANGED <<config, now, rust_latencies, legacy_latencies,
                   rust_requests, legacy_requests, baseline, gatekeeper_vars, app_vars, call_vars,
                   canary_vars, probe_vars, store_vars, mirror_vars, arrivals>>

InitRecorders ==
    /\ recorders = [t \in RecorderIds |->
                       [gateway_type |-> "rust", is_error |-> FALSE,
                        pc |-> "idle"]]
    /\ arrivals = [rust |-> <<>>, legacy |-> <<>>]

(***************************************************************************)
(* The reading calls of the PerformanceMonitor, lock by lock               *)
(* (src/src/monitoring/mod.rs)                                             *)
(*                                                                         *)
(* calculate_metrics keeps the guard of the window until it returns and    *)
(* takes the guards of the two counters one after the other, each dropped  *)
(* at the end of its statement.  get_baseline and set_baseline take the    *)
(* guard of the baseline alone.                                            *)
(***************************************************************************)
\* the loop of start_monitoring, which validates, and a caller of the
\* public readers
MonitoringLoop == "start_monitoring"
MetricsCaller == "metrics_handler"
CallerIds == {MonitoringLoop, MetricsCaller}

IdleCall ==
    [baseline |-> None, request_count |-> 0, gateway_type |-> "rust", rust_metrics |-> None,
     legacy_metrics |-> None, pc |-> "idle", op |-> "none"]

CounterOf(mutex) ==
    CASE mutex = "rust_requests" -> rust_requests
      [] mutex = "legacy_requests" -> legacy_requests
      [] mutex = "rust_errors" -> rust_errors
      [] mutex = "legacy_errors" -> legacy_errors

\* get_current_metrics(gateway_type): None at once for an unknown name,
\* calculate_metrics on the three fields of the backend otherwise
CallGetCurrentMetrics(c, gateway_type) ==
    /\ calls[c].pc = "idle"
    /\ IF gateway_type \in GatewayTypes
         THEN /\ calls' = [calls EXCEPT ![c] =
                              [IdleCall EXCEPT !.op = "get_current_metrics",
                                               !.pc = "lock_latencies",
                                               !.gateway_type = gateway_type]]
              /\ UNCHANGED metrics_result
         ELSE /\ metrics_result' = Some([gateway_type |-> gateway_type,
                                         metrics |-> None])
              /\ UNCHANGED calls
    /\ UNCHANGED <<config, now, monitor_vars, gatekeeper_vars, app_vars, canary_vars,
                   store_vars, mirror_vars, recorder_vars, validation_result,
                   monitor_locks>>

\* validate_performance begins with get_current_metrics("rust")
CallValidatePerformance(c) ==
    /\ calls[c].pc = "idle"
    /\ calls' = [calls EXCEPT ![c] =
                    [IdleCall EXCEPT !.op = "validate_performance",
                                     !.pc = "lock_latencies",
                                     !.gateway_type = "rust"]]
    /\ UNCHANGED <<config, now, monitor_vars, gatekeeper_vars, app_vars, canary_vars,
                   store_vars, mirror_vars, recorder_vars, probe_vars,
                   monitor_locks>>

\* let latencies = latencies.lock().ok()?;
CalcLockLatencies(c) ==
    /\ calls[c].pc = "lock_latencies"
    /\ MutexFree(latencies_of(calls[c].gateway_type))
    /\ monitor_locks' = [monitor_locks EXCEPT
                            ![latencies_of(calls[c].gateway_type)] = Some(c)]
    /\ calls' = [calls EXCEPT ![c].pc = "lock_requests"]
    /\ UNCHANGED <<config, now, monitor_vars, gatekeeper_vars, app_vars, canary_vars,
                   store_vars, mirror_vars, recorder_vars, probe_vars>>

\* let request_count = *requests.lock().ok()?;
CalcReadRequests(c) ==
    /\ calls[c].pc = "lock_requests"
    /\ MutexFree(requests_of(calls[c].gateway_type))
    /\ calls' = [calls EXCEPT
                    ![c].pc = "lock_errors",
                    ![c].request_count =
                        CounterOf(requests_of(calls[c].gateway_type))]
    /\ UNCHANGED <<config, now, monitor_vars, gatekeeper_vars, app_vars, canary_vars,
                   store_vars, mirror_vars, recorder_vars, probe_vars,
                   monitor_locks>>

\* the guard of the window kept after calculate_metrics has returned
ReleaseLatencies_keeps_guard(gateway_type) == monitor_locks

\* the guard of the window is dropped when calculate_metrics returns
ReleaseLatencies(gateway_type) ==
    [monitor_locks EXCEPT ![latencies_of(gateway_type)] = None]

\* let error_count = *errors.lock().ok()?; and the rest of
\* calculate_metrics, which takes no further lock.  The value goes to the
\* caller of get_current_metrics, or validate_performance goes on with the
\* next of its three reads.
CalcReturns(c) ==
    /\ calls[c].pc = "lock_errors"
    /\ MutexFree(errors_of(calls[c].gateway_type))
    /\ monitor_locks' = ReleaseLatencies(calls[c].gateway_type)
    /\ LET gateway_type == calls[c].gateway_type
           metrics == calculate_metrics(Window(gateway_type),
                                        calls[c].request_count,
                                        CounterOf(errors_of(gateway_type)))
       IN  IF calls[c].op = "get_current_metrics"
             THEN /\ metrics_result' = Some([gateway_type |-> gateway_type,
                                             metrics |-> metrics])
                  /\ calls' = [calls EXCEPT ![c] = IdleCall]
             ELSE /\ UNCHANGED metrics_result
                  /\ calls' = [calls EXCEPT ![c] =
                         IF gateway_type = "rust"
                           THEN [@ EXCEPT !.rust_metrics = metrics,
                                          !.gateway_type = "legacy",
                                          !.pc = "lock_latencies"]
                           ELSE [@ EXCEPT !.legacy_metrics = metrics,
                                          !.pc = "lock_baseline"]]
    /\ UNCHANGED <<config, now, monitor_vars, gatekeeper_vars, app_vars, canary_vars,
                   store_vars, mirror_vars, recorder_vars, validation_result>>

\* let baseline = self.get_baseline(); and the match on the three values
ValidateReturns(c) ==
    /\ calls[c].pc = "lock_baseline"
    /\ MutexFree("baseline")
    /\ validation_result' = Some(validate_match(calls[c].rust_metrics,
                                                calls[c].legacy_metrics,
                                                baseline))
    /\ calls' = [calls EXCEPT ![c] = IdleCall]
    /\ UNCHANGED <<config, now, monitor_vars, gatekeeper_vars, app_vars, canary_vars,
                   store_vars, mirror_vars, recorder_vars, metrics_result,
                   monitor_locks>>

\* get_baseline: self.baseline.lock().ok()?.clone()
get_baseline(c) ==
    /\ calls[c].pc = "idle"
    /\ MutexFree("baseline")
    /\ calls' = [calls EXCEPT ![c] =
                    [IdleCall EXCEPT !.op = "get_baseline",
                                     !.baseline = baseline]]
    /\ UNCHANGED <<config, now, monitor_vars, gatekeeper_vars, app_vars, canary_vars,
                   store_vars, mirror_vars, recorder_vars, probe_vars,
                   monitor_locks>>

InitCalls ==
    /\ calls = [c \in CallerIds |-> IdleCall]
    /\ monitor_locks = [mutex \in MonitorMutexes |-> None]

(***************************************************************************)
(* The router built by create_app (src/src/main.rs) and the way of a       *)
(* request through its layers                                              *)
(*                                                                         *)
(* create_app reads the snapshot once and adds the canary layer and then   *)
(* the mirror layer when that snapshot enables them; the layer added last  *)
(* is the outer one.  Each middleware calls get_config for itself when the *)
(* request reaches it (canary.rs, mirror.rs).                              *)
(***************************************************************************)
\* values of random_value * 100.0 drawn by the canary layer
LayerRandomValues == {0, 99}

\* the layers create_app adds for the snapshot it reads
create_app(current_config) ==
    [mirror |-> current_config.mirror.enabled,
     canary |-> current_config.canary_rollout.enabled]

\* the service a request reaches after the layers in done
next_service(done) ==
    IF app_layers.mirror /\ "mirror" \notin done THEN "mirror_layer"
    ELSE IF app_layers.canary /\ "canary" \notin done THEN "canary_layer"
    ELSE "handler"

\* the router accepts a request; applied is the list of reloads stored so far
RequestArrives ==
    /\ IF IsSome(pipeline) THEN Unwrap(pipeline).pc = "done" ELSE TRUE
    /\ pipeline' = Some([target |-> "handler",
                         pc |-> next_service({}),
                         applied |-> swap_order,
                         mirror_snapshot |-> None,
                         canary_snapshot |-> None,
                         mirrored |-> FALSE])
    /\ UNCHANGED <<config, now, monitor_vars, gatekeeper_vars, canary_vars,
                   store_vars, mirror_vars, recorder_vars, probe_vars,
                   call_vars, app_layers>>

\* mirror_middleware: let current_config = get_config().await, then
\* next.run(request)
MirrorLayer ==
    /\ IsSome(pipeline)
    /\ Unwrap(pipeline).pc = "mirror_layer"
    /\ can_read
    /\ pipeline' = Some([Unwrap(pipeline) EXCEPT
                            !.mirror_snapshot = Some(config),
                            !.pc = next_service({"mirror"})])
    /\ UNCHANGED <<config, now, monitor_vars, gatekeeper_vars, canary_vars,
                   store_vars, mirror_vars, recorder_vars, probe_vars,
                   call_vars, app_layers>>

\* canary_routing_middleware: let config = get_config().await, the enable
\* check and the routing decision, all on that snapshot
CanaryLayer(random_value) ==
    /\ IsSome(pipeline)
    /\ Unwrap(pipeline).pc = "canary_layer"
    /\ can_read
    /\ pipeline' = Some([Unwrap(pipeline) EXCEPT
                            !.canary_snapshot = Some(config),
                            !.target = canary_target(config.canary_rollout,
                                                     None, random_value),
                            !.pc = canary_target(config.canary_rollout,
                                                 None, random_value)])
    /\ UNCHANGED <<config, now, monitor_vars, gatekeeper_vars, canary_vars,
                   store_vars, mirror_vars, recorder_vars, probe_vars,
                   call_vars, app_layers>>

\* the handler or the legacy gateway has answered and the response goes
\* back through the layers; the mirror layer spawns its task when the
\* snapshot it read enables mirroring
RequestServed ==
    /\ IsSome(pipeline)
    /\ Unwrap(pipeline).pc \in {"handler", "legacy"}
    /\ pipeline' = Some([Unwrap(pipeline) EXCEPT
                            !.pc = "done",
                            !.mirrored =
                                /\ IsSome(Unwrap(pipeline).mirror_snapshot)
                                /\ Unwrap(Unwrap(pipeline).mirror_snapshot)
                                       .mirror.enabled])
    /\ UNCHANGED <<config, now, monitor_vars, gatekeeper_vars, canary_vars,
                   store_vars, mirror_vars, recorder_vars, probe_vars,
                   call_vars, app_layers>>

InitApp ==
    /\ app_layers = create_app(config)
    /\ pipeline = None

(***************************************************************************)
(* Readers of the Performance Monitor (src/src/monitoring/mod.rs)          *)
(***************************************************************************)
\* the backend names a caller may pass
GatewayNames == GatewayTypes \cup {"unknown"}

\* get_current_metrics(gateway_type), called from outside the monitor
GetCurrentMetrics(gateway_type) ==
    /\ metrics_result' = Some([gateway_type |-> gateway_type,
                               metrics |-> get_current_metrics(gateway_type)])
    /\ UNCHANGED <<config, now, monitor_vars, gatekeeper_vars, app_vars, call_vars, canary_vars,
                   store_vars, mirror_vars, recorder_vars, validation_result>>

\* one tick of start_monitoring: the validation is computed and logged
MonitorTick_rebaselines ==
    LET rust_metrics == get_current_metrics("rust")
        legacy_metrics == get_current_metrics("legacy")
    IN  /\ validation_result' = Some(validate_performance)
        /\ baseline' =
              IF IsSome(rust_metrics) /\ IsSome(legacy_metrics)
                THEN Some([rust_metrics |-> Unwrap(rust_metrics),
                           legacy_metrics |-> Unwrap(legacy_metrics),
                           improvement_factor |->
                               improvement_factor(Unwrap(rust_metrics),
                                                  Unwrap(legacy_metrics))])
                ELSE baseline
        /\ UNCHANGED <<config, now, rust_latencies, legacy_latencies,
                       rust_errors, legacy_errors, rust_requests,
                       legacy_requests, gatekeeper_vars, app_vars, call_vars, canary_vars,
                       store_vars, mirror_vars, recorder_vars, metrics_result>>
MonitorTick ==
    /\ validation_result' = Some(validate_performance)
    /\ UNCHANGED <<config, now, monitor_vars, gatekeeper_vars, app_vars, call_vars, canary_vars,
                   store_vars, mirror_vars, recorder_vars, metrics_result>>

(***************************************************************************)
(* Specifications                                                          *)
(***************************************************************************)
InitState ==
    /\ now = 0
    /\ rust_latencies = <<>>
    /\ legacy_latencies = <<>>
    /\ rust_errors = 0
    /\ legacy_errors = 0
    /\ rust_requests = 0
    /\ legacy_requests = 0
    /\ baseline = None
    /\ last_rollback = None
    /\ status = None
    /\ gk_log = [event |-> "Gatekeeper monitoring started"]
    /\ webhook_posts = <<>>
    /\ canary_req = None
    /\ response = None
    /\ gateway_metrics = [requests_total |-> 0, errors_5xx_total |-> 0,
                          rust_requests_total |-> 0, legacy_requests_total |-> 0]

InitProbes ==
    /\ metrics_result = None
    /\ validation_result = None

InitExt ==
    /\ InitStore
    /\ InitMirrorState
    /\ InitRecorders
    /\ InitProbes
    /\ InitCalls
    /\ InitApp

Init ==
    /\ InitState
    /\ config \in {c \in AppConfig : /\ c.canary_rollout.enabled
                                     /\ ~c.mirror.enabled}
    /\ InitExt

Next ==
    \/ GatekeeperTick
    \/ get_status
    \/ \E reason \in ManualReasons : force_rollback(reason)
    \/ advance_rollout
    \/ \E latency_ms \in RustLatencies, is_error \in BOOLEAN :
           record_request("rust", latency_ms, is_error)
    \/ \E latency_ms \in LegacyLatencies :
           record_request("legacy", latency_ms, FALSE)
    \/ \E r \in BaselineRustP99s, l \in BaselineLegacyP99s :
           set_baseline(BaselineMetrics(r), BaselineMetrics(l))
    \/ AdvanceClock

Spec == Init /\ [][Next]_vars

\* Canary routing middleware
InitCanary ==
    /\ InitState
    /\ config \in {c \in AppConfig :
                      /\ c.canary_rollout.step = 60
                      /\ c.canary_rollout.webhook_url = <<>>
                      /\ ~c.mirror.enabled}
    /\ InitExt

NextCanary ==
    \/ \E header \in HeaderInputs, random_value \in RandomValues :
           CanaryEnter(header, random_value)
    \/ \E status_code \in StatusCodes, latency_ms \in RustLatencies :
           CanaryHandlerReturns(status_code, latency_ms)
    \/ \E outcome \in LegacyOutcomes, latency_ms \in LegacyLatencies :
           CanaryLegacyReturns(outcome, latency_ms)

SpecCanary == InitCanary /\ [][NextCanary]_vars

\* Config Store: file events, reload tasks, readers and subscribers
InitConfig ==
    /\ InitState
    /\ config \in FileConfigs
    /\ InitExt

NextConfig ==
    \/ \E load_result \in LoadResults : FileModified(load_result)
    \/ \E i \in 1..MaxEvents, handle \in RuntimeHandles :
           ReloadThread(i, handle)
    \/ \E i \in 1..MaxEvents : ReloadWriteBegin(i)
    \/ \E i \in 1..MaxEvents : ReloadWriteEnd(i)
    \/ \E i \in 1..MaxEvents : ReloadSend(i)
    \/ \E r \in ReaderIds : ReadBegin(r)
    \/ \E r \in ReaderIds : ReadEnd(r)
    \/ \E s \in SubscriberIds : subscribe_to_reloads(s)
    \/ \E s \in SubscriberIds : ReloadReceived(s)

SpecConfig == InitConfig /\ [][NextConfig]_vars

\* Mirror middleware and the outbound requests
InitMirror ==
    /\ InitState
    /\ config \in {c \in AppConfig :
                      /\ c.canary_rollout.enabled
                      /\ c.canary_rollout.rollout_percentage = 50
                      /\ c.canary_rollout.step = 60
                      /\ c.canary_rollout.webhook_url = <<>>}
    /\ InitExt

NextMirror ==
    \/ \E headers \in InboundHeaderSets : MirrorEnter(headers)
    \/ \E i \in 1..MaxMirrorRequests, handler_response \in HandlerResponses :
           MirrorHandlerReturns(i, handler_response)
    \/ \E i \in 1..MaxMirrorRequests : MirrorTaskSends(i)
    \/ \E i \in 1..MaxMirrorRequests : MirrorTaskResponds(i)
    \/ \E i \in 1..MaxMirrorRequests : MirrorTaskFails(i)
    \/ \E i \in 1..MaxMirrorRequests : MirrorTimeoutPasses(i)
    \/ \E headers \in InboundHeaderSets : LegacyRequestBuilt(headers)

SpecMirror == InitMirror /\ [][NextMirror]_vars

\* record_request called from two threads, the Rust window nearly full
\* everything outside the Performance Monitor, as after construction
InitOutsideMonitor ==
    /\ now = 0
    /\ last_rollback = None
    /\ status = None
    /\ gk_log = [event |-> "Gatekeeper monitoring started"]
    /\ webhook_posts = <<>>
    /\ canary_req = None
    /\ response = None
    /\ gateway_metrics = [requests_total |-> 0, errors_5xx_total |-> 0,
                          rust_requests_total |-> 0, legacy_requests_total |-> 0]
    /\ config \in {c \in AppConfig :
                      /\ c.canary_rollout.enabled
                      /\ c.canary_rollout.rollout_percentage = 50
                      /\ c.canary_rollout.step = 60
                      /\ c.canary_rollout.webhook_url = <<>>
                      /\ ~c.mirror.enabled}
    /\ InitExt

\* The readers of a window: the windows a run of record_request can leave,
\* empty, of every length up to MaxWindowLen and of 100 samples, in three
\* orders of arrival
AscendingWindow(len) == [i \in 1..len |-> 10 * i]
DescendingWindow(len) == [i \in 1..len |-> 10 * (len + 1 - i)]
RepeatingWindow(len) == [i \in 1..len |-> 10 * ((i % 3) + 1)]
PercentileWindows ==
    UNION {{AscendingWindow(len), DescendingWindow(len), RepeatingWindow(len)} :
              len \in 1..MaxWindowLen}
    \cup {AscendingWindow(100), DescendingWindow(100), <<>>}

InitPercentiles ==
    /\ rust_latencies \in PercentileWindows
    /\ legacy_latencies \in {<<>>, <<100>>}
    /\ rust_requests = Len(rust_latencies)
    /\ legacy_requests = Len(legacy_latencies)
    /\ rust_errors = 0
    /\ legacy_errors = 0
    /\ baseline = None
    /\ InitOutsideMonitor

NextPercentiles ==
    \/ \E gateway_type \in GatewayNames : GetCurrentMetrics(gateway_type)
    \/ MonitorTick
    \/ \E r \in BaselineRustP99s, l \in LegacyLatencies :
           set_baseline(BaselineMetrics(r), BaselineMetrics(l))

SpecPercentiles == InitPercentiles /\ [][NextPercentiles]_vars

\* The Performance Monitor with its loop: baselines with a p99 of 0 and
\* on both sides of the latency target for a Rust latency of 110
MonitorRustLatencies == {110}
MonitorBaselineRustP99s == {0, 50}
MonitorBaselineLegacyP99s == {0, 100, 1000}

InitMonitor ==
    /\ rust_latencies = <<>>
    /\ legacy_latencies = <<>>
    /\ rust_requests = 0
    /\ legacy_requests = 0
    /\ rust_errors = 0
    /\ legacy_errors = 0
    /\ baseline = None
    /\ InitOutsideMonitor

NextMonitor ==
    \/ \E latency_ms \in MonitorRustLatencies, is_error \in BOOLEAN :
           record_request("rust", latency_ms, is_error)
    \/ \E latency_ms \in LegacyLatencies :
           record_request("legacy", latency_ms, FALSE)
    \/ \E r \in MonitorBaselineRustP99s, l \in MonitorBaselineLegacyP99s :
           set_baseline(BaselineMetrics(r), BaselineMetrics(l))
    \/ GetCurrentMetrics("legacy")
    \/ MonitorTick
    \/ GatekeeperTick

SpecMonitor == InitMonitor /\ [][NextMonitor]_vars

\* The health check at the degradation threshold: Rust latencies 10% and
\* 11% above a legacy baseline of 100, in and out of the cooldown
HealthRustLatencies == {110, 111}
HealthBaselineLegacyP99s == {0, 100}

NextHealth ==
    \/ \E latency_ms \in HealthRustLatencies, is_error \in BOOLEAN :
           record_request("rust", latency_ms, is_error)
    \/ \E latency_ms \in LegacyLatencies :
           record_request("legacy", latency_ms, FALSE)
    \/ \E r \in BaselineRustP99s, l \in HealthBaselineLegacyP99s :
           set_baseline(BaselineMetrics(r), BaselineMetrics(l))
    \/ get_status
    \/ \E reason \in ManualReasons : force_rollback(reason)
    \/ AdvanceClock

SpecHealth == InitMonitor /\ [][NextHealth]_vars

\* The rollback alert: webhook URLs that start with "http" and others, and
\* rollbacks from force_rollback, with the monitoring loop and the clock
AlertWebhookUrls ==
    {<<>>,
     <<"h","t","t","p",":","/","/","w">>,
     <<"h","t","t","p","s",":","/","/","w">>,
     <<"f","t","p",":","/","/","w">>,
     <<"H","T","T","P",":","/","/","w">>,
     <<"w">>}

InitAlert ==
    /\ InitState
    /\ config \in {[c EXCEPT !.canary_rollout.webhook_url = url] :
                      c \in {a \in AppConfig :
                                /\ a.canary_rollout.enabled
                                /\ a.canary_rollout.rollout_percentage \in {1, 100}
                                /\ ~a.mirror.enabled},
                      url \in AlertWebhookUrls}
    /\ InitExt

NextAlert ==
    \/ GatekeeperTick
    \/ \E reason \in ManualReasons : force_rollback(reason)
    \/ AdvanceClock

SpecAlert == InitAlert /\ [][NextAlert]_vars

\* The Performance Monitor lock by lock: recorders of the legacy backend
\* beside threads that read the metrics, validate, and read and store the
\* baseline.  One request of the new backend was recorded before.
LockLatencySamples == {7}
LockBaselineLegacyP99s == {100}
LockGatewayNames == {"legacy", "unknown"}

InitLocks ==
    /\ rust_latencies = <<110>>
    /\ legacy_latencies = <<>>
    /\ rust_requests = 1
    /\ legacy_requests = 0
    /\ rust_errors = 0
    /\ legacy_errors = 0
    /\ baseline = None
    /\ InitOutsideMonitor

NextLocks ==
    \/ \E t \in RecorderIds, latency_ms \in LockLatencySamples,
          is_error \in BOOLEAN :
           RecordPush(t, "legacy", latency_ms, is_error)
    \/ \E t \in RecorderIds : RecordCount(t)
    \/ \E t \in RecorderIds : RecordError(t)
    \/ \E gateway_type \in LockGatewayNames :
           CallGetCurrentMetrics(MetricsCaller, gateway_type)
    \/ CallValidatePerformance(MonitoringLoop)
    \/ \E c \in CallerIds : CalcLockLatencies(c)
    \/ \E c \in CallerIds : CalcReadRequests(c)
    \/ \E c \in CallerIds : CalcReturns(c)
    \/ \E c \in CallerIds : ValidateReturns(c)
    \/ get_baseline(MetricsCaller)
    \/ \E r \in BaselineRustP99s, l \in LockBaselineLegacyP99s :
           set_baseline(BaselineMetrics(r), BaselineMetrics(l))

SpecLocks == InitLocks /\ [][NextLocks]_vars

\* The router and the reloads: the service starts with any of the four
\* combinations of canary and mirror enabled, the file is then modified.
InitLayers ==
    /\ InitState
    /\ config \in {c \in AppConfig :
                      /\ c.canary_rollout.rollout_percentage = 50
                      /\ c.canary_rollout.step = 60
                      /\ c.canary_rollout.webhook_url = <<>>}
    /\ InitExt

NextLayers ==
    \/ RequestArrives
    \/ MirrorLayer
    \/ \E random_value \in LayerRandomValues : CanaryLayer(random_value)
    \/ RequestServed
    \/ \E load_result \in LoadResults : FileModified(load_result)
    \/ \E i \in 1..MaxEvents, handle \in RuntimeHandles :
           ReloadThread(i, handle)
    \/ \E i \in 1..MaxEvents : ReloadWriteBegin(i)
    \/ \E i \in 1..MaxEvents : ReloadWriteEnd(i)
    \/ \E i \in 1..MaxEvents : ReloadSend(i)

SpecLayers == InitLayers /\ [][NextLayers]_vars

InitWindow ==
    /\ now = 0
    /\ rust_latencies = [i \in 1..WindowFill |-> i]
    /\ legacy_latencies = <<>>
    /\ rust_errors = 0
    /\ legacy_errors = 0
    /\ rust_requests = WindowFill
    /\ legacy_requests = 0
    /\ baseline = None
    /\ last_rollback = None
    /\ status = None
    /\ gk_log = [event |-> "Gatekeeper monitoring started"]
    /\ webhook_posts = <<>>
    /\ canary_req = None
    /\ response = None
    /\ gateway_metrics = [requests_total |-> 0, errors_5xx_total |-> 0,
                          rust_requests_total |-> 0, legacy_requests_total |-> 0]
    /\ config \in {c \in AppConfig :
                      /\ c.canary_rollout.enabled
                      /\ c.canary_rollout.rollout_percentage = 50
                      /\ c.canary_rollout.step = 60
                      /\ c.canary_rollout.webhook_url = <<>>
                      /\ ~c.mirror.enabled}
    /\ InitStore
    /\ InitMirrorState
    /\ InitProbes
    /\ InitCalls
    /\ InitApp
    /\ recorders = [t \in RecorderIds |->
                       [gateway_type |-> "rust", is_error |-> FALSE,
                        pc |-> "idle"]]
    /\ arrivals = [rust |-> [i \in 1..WindowFill |-> i], legacy |-> <<>>]

NextWindow ==
    \/ \E t \in RecorderIds, gateway_type \in GatewayTypes,
          latency_ms \in LatencySamples, is_error \in BOOLEAN :
           RecordPush(t, gateway_type, latency_ms, is_error)
    \/ \E t \in RecorderIds : RecordCount(t)
    \/ \E t \in RecorderIds : RecordError(t)

SpecWindow == InitWindow /\ [][NextWindow]_vars

(***************************************************************************)
(* Properties of the Gatekeeper (checked under Spec)                       *)
(***************************************************************************)
\* a step in which check_health runs: a monitoring tick or get_status
HealthCheckStep == GatekeeperTick \/ get_status
\* a step in which the rollback action runs
RollbackStep ==
    \/ \E reason \in ManualReasons : force_rollback(reason)
    \/ GatekeeperTick /\ last_rollback' # last_rollback

NoRecentRollback ==
    last_rollback = None \/ now - Unwrap(last_rollback) >= 300
InsideCooldown ==
    last_rollback # None /\ now - Unwrap(last_rollback) < 300
\* errors / requests * 100 > max_errors for the new backend
ErrorRateAbove ==
    /\ rust_requests > 0
    /\ rust_errors * 100 > config.canary_rollout.max_errors * rust_requests
BothWindowsAndBaseline ==
    rust_latencies # <<>> /\ legacy_latencies # <<>> /\ baseline # None
Unhealthy(st) ==
    st # None /\ ~Unwrap(st).is_healthy /\ Unwrap(st).rollback_reason # None
Healthy(st) ==
    st # None /\ Unwrap(st).is_healthy /\ Unwrap(st).rollback_reason = None
ExpectedRollbackTarget ==
    LET cfg == config.canary_rollout
    IN  IF cfg.rollout_percentage - cfg.step >= 1
          THEN cfg.rollout_percentage - cfg.step ELSE 1
ExpectedAdvanceTarget ==
    LET cfg == config.canary_rollout
    IN  IF cfg.rollout_percentage + cfg.step <= 100
          THEN cfg.rollout_percentage + cfg.step ELSE 100

\* C1: a monitoring tick whose health check reports is_healthy = false with
\* a reason executes the rollback action in that same tick: the rollback
\* timestamp is recorded and the Gatekeeper is in Cooldown afterwards.
C1_TickExecutesRollback ==
    [][(GatekeeperTick /\ Unhealthy(status'))
         => (last_rollback' = Some(now) /\ gk_log'.event = "ROLLBACK EXECUTED")]_vars

\* C2: the rollback action, from a tick or from force_rollback, leaves the
\* configuration's rollout_percentage at max(old - step, 1) and records the
\* rollback timestamp.
C2_RollbackReducesConfig ==
    [][RollbackStep
         => /\ config'.canary_rollout.rollout_percentage = ExpectedRollbackTarget
            /\ last_rollback' = Some(now)]_vars

\* C3 as stated: with no rollback in the previous 300 s, a health check
\* made while the new backend's recorded error rate exceeds max_errors
\* returns is_healthy = false with a reason, whatever the legacy window and
\* the baseline are.
C3_AnyMonitorState ==
    [][(HealthCheckStep /\ NoRecentRollback /\ rust_latencies # <<>>
          /\ ErrorRateAbove)
         => Unhealthy(status')]_vars

\* C3 amended: with no rollback in the previous 300 s, a health check made
\* while the new backend's recorded error rate exceeds max_errors, both
\* backends have recorded requests and a baseline is set returns
\* is_healthy = false with a reason.
C3_ErrorRateUnhealthy ==
    [][(HealthCheckStep /\ NoRecentRollback /\ BothWindowsAndBaseline
          /\ ErrorRateAbove)
         => Unhealthy(status')]_vars

\* the check on record is unhealthy because of the error rate
C3_Witness ==
    /\ Unhealthy(status)
    /\ Unwrap(status).rollback_reason = Some(REASON_error_rate)
    /\ Gt(Unwrap(status).error_rate, FromInt(config.canary_rollout.max_errors))

\* C4: a health check made less than 300 s after the recorded rollback
\* returns is_healthy = true with no reason whatever the error rate and the
\* latency degradation are, and changes neither rollout_percentage nor the
\* rollback timestamp nor sends an alert; a check made once 300 s have
\* elapsed evaluates health again.
C4_CooldownSuppression ==
    [][HealthCheckStep
         => /\ InsideCooldown
                => /\ Healthy(status')
                   /\ ~Unwrap(status').rollback_triggered
                   /\ config' = config
                   /\ last_rollback' = last_rollback
                   /\ webhook_posts' = webhook_posts
            /\ (~InsideCooldown /\ BothWindowsAndBaseline /\ ErrorRateAbove)
                => Unhealthy(status')]_vars

\* a check inside the cooldown reported healthy although the error rate it
\* observed exceeds max_errors
C4_Witness ==
    /\ InsideCooldown
    /\ Healthy(status)
    /\ Gt(Unwrap(status).error_rate, FromInt(config.canary_rollout.max_errors))

\* C5: advance_rollout called below 100 sets the configuration's
\* rollout_percentage to min(old + step, 100); called at 100 it changes
\* nothing; the percentage never exceeds 100.
C5_AdvanceRaisesConfig ==
    [][advance_rollout
         => /\ config'.canary_rollout.rollout_percentage = ExpectedAdvanceTarget
            /\ config'.canary_rollout.rollout_percentage <= 100]_vars

\* C6: force_rollback runs the rollback action at any time, also inside the
\* cooldown window and when the health check is healthy: it records a new
\* rollback timestamp and computes the target max(current - step, 1), which
\* it logs and reports in the alert.
C6_ForceRollback ==
    [][(\E reason \in ManualReasons : force_rollback(reason))
         => /\ last_rollback' = Some(now)
            /\ gk_log'.event = "ROLLBACK EXECUTED"
            /\ gk_log'.from = config.canary_rollout.rollout_percentage
            /\ gk_log'.to = ExpectedRollbackTarget
            /\ webhook_posts' # webhook_posts
                 => /\ Len(webhook_posts') = Len(webhook_posts) + 1
                    /\ webhook_posts'[Len(webhook_posts')].to = ExpectedRollbackTarget
                    /\ webhook_posts'[Len(webhook_posts')].from =
                           config.canary_rollout.rollout_percentage]_vars

\* a second rollback was forced inside the cooldown window of the first,
\* after the last health check had reported healthy
C6_Witness ==
    /\ Len(webhook_posts) >= 2
    /\ last_rollback # None
    /\ Unwrap(last_rollback) > 0
    /\ Unwrap(last_rollback) < 300
    /\ gk_log.event = "ROLLBACK EXECUTED"
    /\ gk_log.to = ExpectedRollbackTarget
    /\ Healthy(status)

(***************************************************************************)
(* Properties of the canary routing middleware (checked under SpecCanary)  *)
(***************************************************************************)
RustSpellings == {STR_rust, <<"R","u","s","t">>, <<"R","U","S","T">>}
NewSpellings == {STR_new, <<"N","E","W">>}
LegacySpellings == {STR_legacy, <<"L","e","g","a","c","y">>,
                    <<"L","E","G","A","C","Y">>}

\* the routing decisions on record: the one of the request in flight and
\* the one behind the last response
Decisions ==
    (IF canary_req # None
       THEN {[backend |-> IF Unwrap(canary_req).awaiting = "handler"
                            THEN "rust" ELSE "legacy",
              request |-> Unwrap(canary_req)]}
       ELSE {})
    \cup
    (IF response # None
       THEN {[backend |-> Unwrap(response).backend,
              request |-> Unwrap(response).request]}
       ELSE {})

CanaryEnabled(d) == d.request.config.canary_rollout.enabled
RolloutOf(d) == d.request.config.canary_rollout.rollout_percentage
HeaderIn(d, spellings) ==
    d.request.header # None /\ Unwrap(d.request.header) \in spellings

\* C7 as stated: with canary routing enabled, a request whose trigger
\* header equals "new" in any letter case goes to the new backend, for
\* every rollout_percentage and every draw.
C7_HeaderNew ==
    \A d \in Decisions :
        (CanaryEnabled(d) /\ HeaderIn(d, NewSpellings)) => d.backend = "rust"

\* C7 amended: with canary routing enabled, a request whose trigger header
\* equals "rust" in any letter case goes to the new backend (the downstream
\* handler), for every rollout_percentage and every draw, and no draw is
\* made for it.
C7_HeaderRust ==
    \A d \in Decisions :
        (CanaryEnabled(d) /\ HeaderIn(d, RustSpellings))
            => d.backend = "rust" /\ d.request.random_value = None

\* a response came from the downstream handler for a request forced to
\* the new backend by a mixed-case header at rollout_percentage 0
C7_Witness ==
    \E d \in Decisions :
        /\ response # None /\ d.request = Unwrap(response).request
        /\ CanaryEnabled(d)
        /\ d.request.header = Some(<<"R","u","s","t">>)
        /\ RolloutOf(d) = 0
        /\ d.backend = "rust"

\* C8: with canary routing enabled, a request whose trigger header equals
\* "legacy" in any letter case goes to the legacy gateway, for every
\* rollout_percentage (100 included) and every draw; the downstream handler
\* is not invoked for it.
C8_HeaderLegacy ==
    \A d \in Decisions :
        (CanaryEnabled(d) /\ HeaderIn(d, LegacySpellings))
            => d.backend = "legacy" /\ d.request.random_value = None

\* a response came from the legacy gateway for a request forced to legacy
\* by an upper-case header at rollout_percentage 100
C8_Witness ==
    \E d \in Decisions :
        /\ response # None /\ d.request = Unwrap(response).request
        /\ CanaryEnabled(d)
        /\ d.request.header = Some(<<"L","E","G","A","C","Y">>)
        /\ RolloutOf(d) = 100
        /\ d.backend = "legacy"

\* C9: when canary_rollout.enabled is false in the snapshot read at entry,
\* the request goes to the downstream handler whatever the trigger header
\* and the rollout_percentage are; the legacy proxy is not called.
C9_DisabledGoesToHandler ==
    \A d \in Decisions :
        ~CanaryEnabled(d)
            => /\ d.backend = "rust"
               /\ d.request.awaiting = "handler"
               /\ d.request.random_value = None

\* the downstream handler answered a request that carried the header
\* "legacy" while canary routing was disabled
C9_Witness ==
    \E d \in Decisions :
        /\ response # None /\ d.request = Unwrap(response).request
        /\ ~CanaryEnabled(d)
        /\ d.request.header = Some(STR_legacy)
        /\ RolloutOf(d) = 0
        /\ d.backend = "rust"

\* C10: with canary enabled and no trigger header, or a header value that
\* forces neither backend, the request goes to the new backend exactly
\* when the draw r satisfies r < rollout_percentage and to legacy
\* otherwise; so at rollout_percentage 0 every draw goes to legacy and at
\* 100 every draw goes to the new backend.
C10_RandomSplit ==
    \A d \in Decisions :
        (CanaryEnabled(d) /\ ~HeaderIn(d, RustSpellings \cup LegacySpellings))
            => /\ d.request.random_value # None
               /\ (d.backend = "rust")
                      <=> (Unwrap(d.request.random_value) < RolloutOf(d))
               /\ RolloutOf(d) = 0 => d.backend = "legacy"
               /\ RolloutOf(d) = 100 => d.backend = "rust"

\* a request without the header was sent to legacy on the draw 50 at
\* rollout_percentage 50
C10_Witness ==
    \E d \in Decisions :
        /\ response # None /\ d.request = Unwrap(response).request
        /\ CanaryEnabled(d)
        /\ d.request.header = None
        /\ RolloutOf(d) = 50
        /\ d.request.random_value = Some(50)
        /\ d.backend = "legacy"


(***************************************************************************)
(* Properties of the Config Store (checked under SpecConfig)               *)
(***************************************************************************)
\* the events whose load() failed
FailedLoads == {i \in DOMAIN reloads : ~reloads[i].load_ok}
\* the snapshots that were stored whole: the first one and every one a
\* reload task finished writing
StoredSnapshots ==
    {initial_config} \cup {Unwrap(reloads[i].loaded) : i \in Range(swap_order)}

\* C11: a file-modification event whose load() fails leaves the stored
\* snapshot unchanged: no thread or task is started for it and it never
\* replaces the snapshot; while every event so far has failed, the stored
\* snapshot is the one the store started with, every completed read
\* returned it, and no subscriber was sent anything.
C11_FailedLoadKeepsSnapshot ==
    /\ \A i \in FailedLoads :
           /\ reloads[i].pc = "load_failed"
           /\ i \notin Range(swap_order)
    /\ (FailedLoads = DOMAIN reloads)
           => /\ config = initial_config
              /\ \A s \in SubscriberIds : subscribers[s] \in {None, Some(<<>>)}
              /\ \A r \in ReaderIds :
                     reads[r].result \in {None, Some(initial_config)}

\* an event failed to load, a subscriber is listening, and a read that
\* began after the event returned the snapshot the store started with
C11_Witness ==
    /\ reloads # <<>>
    /\ FailedLoads = DOMAIN reloads
    /\ \E s \in SubscriberIds : subscribers[s] = Some(<<>>)
    /\ \E r \in ReaderIds : /\ reads[r].events >= 1
                            /\ reads[r].result = Some(initial_config)

\* the handling of event i has come to its end: nothing more runs for it
ReloadEnded(i) ==
    reloads[i].pc \in {"published", "no_subscribers", "never_polled",
                       "no_runtime", "load_failed"}

\* C12: after a file-modification event whose load() succeeds the stored
\* snapshot is replaced by the loaded one and the loaded one is sent to
\* the subscribers: once the handling of such an event has ended, its
\* snapshot has been stored and handed to reload_tx.send.
C12_LoadedSnapshotApplied ==
    \A i \in DOMAIN reloads :
        (reloads[i].load_ok /\ ReloadEnded(i))
            => /\ i \in Range(swap_order)
               /\ reloads[i].pc \in {"published", "no_subscribers"}

\* C13: no get_config returns a snapshot mixing sections of two
\* configurations: every returned snapshot is one that was stored whole,
\* the first one or one a reload finished writing.
C13_NoMixedSnapshot ==
    \A r \in ReaderIds :
        IsSome(reads[r].result) => Unwrap(reads[r].result) \in StoredSnapshots

\* a read that began after the event arrived returned the reloaded
\* snapshot while that reload had not yet published it
C13_Witness ==
    \E r \in ReaderIds, i \in DOMAIN reloads :
        /\ reloads[i].pc = "swapped"
        /\ reads[r].events >= i
        /\ reads[r].result = reloads[i].loaded
        /\ Unwrap(reads[r].result) # initial_config

\* C14: the current snapshot always has canary rollout_percentage in
\* [0, 100] and step > 0.
C14_RolloutInRange ==
    /\ config.canary_rollout.rollout_percentage >= 0
    /\ config.canary_rollout.rollout_percentage <= 100
    /\ config.canary_rollout.step > 0


(***************************************************************************)
(* Properties of the mirror middleware and of the outbound requests        *)
(* (checked under SpecMirror)                                              *)
(***************************************************************************)
\* a step in which send() of a mirror task returns Err
MirrorFailureStep ==
    \E i \in DOMAIN mirror_reqs :
        /\ mirror_reqs[i].task = "sending"
        /\ mirror_reqs'[i].task = "failed"

\* C15: with mirroring enabled, the response returned to the caller is
\* exactly the response of the downstream handler and stays so whatever
\* the mirror task does afterwards; a mirror transport failure adds one
\* to the mirror-failure counter and changes no other counter and no
\* Performance Monitor state.
C15_PrimaryResponseIsolated ==
    [][/\ \A i \in DOMAIN mirror_reqs' :
              (mirror_reqs'[i].mirror_config.enabled
                   /\ mirror_reqs'[i].pc = "done")
                  => /\ IsSome(mirror_reqs'[i].returned)
                     /\ mirror_reqs'[i].returned
                            = mirror_reqs'[i].handler_response
       /\ \A i \in DOMAIN mirror_reqs :
              mirror_reqs[i].pc = "done"
                  => mirror_reqs'[i].returned = mirror_reqs[i].returned
       /\ MirrorFailureStep
              => /\ mirror_metrics'.failures_total
                        = mirror_metrics.failures_total + 1
                 /\ mirror_metrics'.requests_total
                        = mirror_metrics.requests_total
                 /\ mirror_metrics'.latency_observations
                        = mirror_metrics.latency_observations
                 /\ UNCHANGED <<monitor_vars, gateway_metrics>>]_vars

\* one request got the handler's response back and its mirror replay
\* failed; another got its response back while its replay is still pending
C15_Witness ==
    \E i, j \in DOMAIN mirror_reqs :
        /\ mirror_reqs[i].task = "failed"
        /\ mirror_reqs[i].returned = mirror_reqs[i].handler_response
        /\ IsSome(mirror_reqs[i].returned)
        /\ mirror_metrics.failures_total = 1
        /\ mirror_metrics.requests_total = 0
        /\ mirror_reqs[j].task = "sending"
        /\ mirror_reqs[j].timeout_elapsed
        /\ mirror_reqs[j].returned = mirror_reqs[j].handler_response
        /\ IsSome(mirror_reqs[j].returned)

\* C16: the mirror replay of a request is dispatched only after the
\* downstream handler has produced the primary response, and the request
\* path does not wait for it: whenever a mirror task exists for a request,
\* the handler's response exists and has already been returned.
C16_DispatchAfterPrimary ==
    \A i \in DOMAIN mirror_reqs :
        mirror_reqs[i].task # "none"
            => /\ IsSome(mirror_reqs[i].handler_response)
               /\ mirror_reqs[i].pc = "done"
               /\ IsSome(mirror_reqs[i].returned)

\* a response has been returned while its mirror replay is still being sent
C16_Witness ==
    \E i \in DOMAIN mirror_reqs :
        /\ mirror_reqs[i].task = "sending"
        /\ mirror_reqs[i].pc = "done"
        /\ IsSome(mirror_reqs[i].returned)

\* C17: every dispatched mirror replay is ended by mirror.timeout_ms at
\* the latest: no mirror task is still waiting for its target once the
\* configured timeout has passed.
C17_MirrorReplayEnds ==
    \A i \in DOMAIN mirror_reqs :
        ~(mirror_reqs[i].task = "sending" /\ mirror_reqs[i].timeout_elapsed)

HopHeaders == {"host", "connection", "upgrade"}
ExpectedOutbound(inbound, provenance) ==
    {h \in inbound : h.name \notin HopHeaders} \cup {provenance}

\* C19: every outbound request built for the legacy target or for the
\* mirror target omits the inbound host, connection and upgrade headers,
\* copies every other inbound header and carries the added provenance
\* header.
C19_OutboundHeaders ==
    /\ IsSome(legacy_outbound)
           => Unwrap(legacy_outbound).headers
                  = ExpectedOutbound(Unwrap(legacy_outbound).inbound,
                                     Header("x-routed-by",
                                            "Rust-Gateway-Canary"))
    /\ \A i \in DOMAIN mirror_reqs :
           IsSome(mirror_reqs[i].outbound)
               => Unwrap(mirror_reqs[i].outbound)
                      = ExpectedOutbound(mirror_reqs[i].headers,
                                         Header("x-mirrored-by",
                                                "Rust-Gateway"))

(***************************************************************************)
(* Properties of the legacy path (checked under SpecCanary)                *)
(***************************************************************************)
\* the Performance Monitor took one legacy record, as an error or not
LegacyRecorded(as_error) ==
    /\ legacy_requests' = legacy_requests + 1
    /\ legacy_errors' = legacy_errors + (IF as_error THEN 1 ELSE 0)
    /\ UNCHANGED <<rust_requests, rust_errors>>

LastN(s, n) == SubSeq(s, Len(s) - n + 1, Len(s))

\* C20: each backend's window holds exactly the most recent min(n, 1000)
\* of the n latencies pushed for that backend, in arrival order, so it is
\* never longer than 1000 and the oldest are the ones evicted.
C20_WindowIsRecentArrivals ==
    \A g \in GatewayTypes :
        /\ Len(Window(g)) <= 1000
        /\ Window(g) = LastN(arrivals[g], Min(Len(arrivals[g]), 1000))

\* the Rust window has evicted its oldest latency while both threads are
\* inside record_request
C20_Witness ==
    /\ Len(arrivals.rust) = 1001
    /\ Len(rust_latencies) = 1000
    /\ rust_latencies[1] = arrivals.rust[2]
    /\ \A t \in RecorderIds : recorders[t].pc # "idle"

(***************************************************************************)
(* Properties of the percentiles (checked under SpecPercentiles)           *)
(***************************************************************************)
\* two finite values are equal
FEq(a, b) == IsFinite(a) /\ IsFinite(b) /\ a.num * b.den = b.num * a.den

\* k = floor(len * percent / 100)
IsFloor(k, len, percent) ==
    k * 100 <= len * percent /\ len * percent < (k + 1) * 100

\* the value at 0-based index k of the window sorted ascending
AtSortedIndex(w, k) ==
    CHOOSE v \in Range(w) :
        /\ Cardinality({i \in DOMAIN w : w[i] < v}) <= k
        /\ Cardinality({i \in DOMAIN w : w[i] <= v}) > k

WindowOf(gateway_type) ==
    IF gateway_type = "rust" THEN rust_latencies ELSE legacy_latencies

\* C21: for every non-empty window of length len, current_metrics returns
\* p50, p95 and p99 as the values at indices floor(len * 0.50),
\* floor(len * 0.95) and floor(len * 0.99) of the window sorted ascending,
\* and for every len in 1..1000 each of these indices is at most len - 1.
C21_PercentilesByIndex ==
    /\ \A len \in 1..WindowCap : \A percent \in {95, 99} :
           /\ IsFloor(percentile_index(len, percent), len, percent)
           /\ percentile_index(len, percent) <= len - 1
    /\ \A r \in Range(metrics_result) :
           (r.gateway_type \in GatewayTypes /\ WindowOf(r.gateway_type) # <<>>) =>
               LET w == WindowOf(r.gateway_type)
                   len == Len(w)
                   AtFloor(value, percent) ==
                       \E k \in 0..(len - 1) :
                           /\ IsFloor(k, len, percent)
                           /\ value = AtSortedIndex(w, k)
               IN  /\ IsSome(r.metrics)
                   /\ AtFloor(Unwrap(r.metrics).p50_latency_ms, 50)
                   /\ AtFloor(Unwrap(r.metrics).p95_latency_ms, 95)
                   /\ AtFloor(Unwrap(r.metrics).p99_latency_ms, 99)

\* the percentiles of the 100-sample window 10, 20, ..., 1000 were returned
C21_Witness ==
    /\ rust_latencies = [i \in 1..100 |-> 10 * i]
    /\ \E r \in Range(metrics_result) :
           /\ r.gateway_type = "rust"
           /\ IsSome(r.metrics)
           /\ Unwrap(r.metrics).p50_latency_ms = 510
           /\ Unwrap(r.metrics).p99_latency_ms = 1000

\* a validation with all improvement percentages and both error rates 0 and
\* neither the latency target, nor the resource target, nor success
IsDefaultResult(v) ==
    /\ FEq(v.latency_improvement_percent, FromInt(0))
    /\ FEq(v.memory_improvement_percent, FromInt(0))
    /\ FEq(v.cpu_improvement_percent, FromInt(0))
    /\ FEq(v.error_rate_rust, FromInt(0))
    /\ FEq(v.error_rate_legacy, FromInt(0))
    /\ ~v.meets_latency_target
    /\ ~v.meets_resource_target
    /\ ~v.overall_success

\* C26: validate returns a result on every call, and the default result (all
\* improvement percentages and both error rates 0, latency target, resource
\* target and overall success false) whenever either backend's window is
\* empty or no baseline has been set; current_metrics returns None exactly
\* when the backend's window is empty.
C26_DefaultWithoutData ==
    [][/\ MonitorTick =>
              /\ IsSome(validation_result')
              /\ (rust_latencies = <<>> \/ legacy_latencies = <<>>
                      \/ baseline = None)
                     => IsDefaultResult(Unwrap(validation_result'))
       /\ \A gateway_type \in GatewayTypes :
              GetCurrentMetrics(gateway_type) =>
                  /\ IsSome(metrics_result')
                  /\ (Unwrap(metrics_result').metrics = None)
                         <=> (WindowOf(gateway_type) = <<>>)]_vars

\* with the Rust window filled and a baseline set, the legacy window is
\* empty: current_metrics gave None for it and validate gave the default
C26_Witness ==
    /\ rust_latencies # <<>>
    /\ legacy_latencies = <<>>
    /\ IsSome(baseline)
    /\ metrics_result = Some([gateway_type |-> "legacy", metrics |-> None])
    /\ IsSome(validation_result)
    /\ IsDefaultResult(Unwrap(validation_result))

(***************************************************************************)
(* Properties of the reload task (checked under SpecConfig)                *)
(***************************************************************************)
\* reload i goes from one position of the reload task to another
ReloadMoves(i, from, to) ==
    /\ i \in DOMAIN reloads
    /\ reloads[i].pc = from
    /\ reloads'[i].pc \in to

\* what receiver s holds, nothing when it does not exist
Held(subs, s) == IF IsSome(subs[s]) THEN Unwrap(subs[s]) ELSE <<>>

C23_UnreadableBodyIsError ==
    [][\A outcome \in LegacyOutcomes, latency_ms \in LegacyLatencies :
           (/\ outcome.kind = "response"
            /\ ~outcome.body_ok
            /\ CanaryLegacyReturns(outcome, latency_ms))
               => /\ Unwrap(response').status = 502
                  /\ LegacyRecorded(TRUE)]_vars

\* the canary router returns the response of a request it took while the
\* canary was enabled
CanaryCompletes ==
    /\ IsSome(canary_req)
    /\ canary_req' = None
    /\ Unwrap(canary_req).config.canary_rollout.enabled

\* one sample more in a window and its request counter, the samples already
\* there kept
OneSample(latencies, latencies_after, requests, requests_after, errors, errors_after) ==
    /\ requests_after = requests + 1
    /\ Len(latencies_after) = Len(latencies) + 1
    /\ SubSeq(latencies_after, 1, Len(latencies)) = latencies
    /\ errors_after \in {errors, errors + 1}

\* C24: every request handled by the canary router with canary enabled
\* adds exactly one sample to the Performance Monitor by the time its
\* response is returned, to backend new when the new backend was chosen and
\* to backend legacy otherwise, on every outcome; the other backend's window
\* and counters are unchanged by that request.
C24_OneSamplePerRequest ==
    [][CanaryCompletes =>
           /\ IsSome(response')
           /\ IF Unwrap(canary_req).awaiting = "handler"
                THEN /\ Unwrap(response').backend = "rust"
                     /\ OneSample(rust_latencies, rust_latencies',
                                  rust_requests, rust_requests',
                                  rust_errors, rust_errors')
                     /\ UNCHANGED <<legacy_latencies, legacy_requests,
                                    legacy_errors>>
                ELSE /\ Unwrap(response').backend = "legacy"
                     /\ OneSample(legacy_latencies, legacy_latencies',
                                  legacy_requests, legacy_requests',
                                  legacy_errors, legacy_errors')
                     /\ UNCHANGED <<rust_latencies, rust_requests,
                                    rust_errors>>]_vars

\* one request went to each backend, the legacy one timed out, and each
\* window holds one sample
C24_Witness ==
    /\ IsSome(response)
    /\ Unwrap(response).request.config.canary_rollout.enabled
    /\ Unwrap(response).backend = "legacy"
    /\ Unwrap(response).status = 504
    /\ Len(rust_latencies) = 1
    /\ rust_requests = 1
    /\ Len(legacy_latencies) = 1
    /\ legacy_requests = 1
    /\ legacy_errors = 1

(***************************************************************************)
(* Properties of the baseline and the validation (checked under            *)
(* SpecMonitor)                                                            *)
(***************************************************************************)
\* C25: set_baseline stores improvement_factor = legacy.p99 / new.p99 and,
\* when new.p99 = 0, the factor 1.0 instead; in every case it stores both
\* given snapshots as the baseline.
C25_BaselineFactorGuarded ==
    [][\A r \in MonitorBaselineRustP99s, l \in MonitorBaselineLegacyP99s :
           set_baseline(BaselineMetrics(r), BaselineMetrics(l)) =>
               /\ IsSome(baseline')
               /\ Unwrap(baseline').rust_metrics = BaselineMetrics(r)
               /\ Unwrap(baseline').legacy_metrics = BaselineMetrics(l)
               /\ FEq(Unwrap(baseline').improvement_factor,
                      IF r = 0 THEN FromInt(1) ELSE Rat(l, r))]_vars

\* C27: in every result of validate, the default one included,
\* overall_success holds exactly when meets_latency_target,
\* meets_resource_target and meets_error_target all hold, where
\* meets_latency_target = (latency_improvement% >= 50),
\* meets_resource_target = (memory_improvement% >= 70 or
\* cpu_improvement% >= 70) and meets_error_target = (new.error_rate <= 0.5).
C27_OverallIsAllGates ==
    \A v \in Range(validation_result) :
        /\ v.meets_latency_target <=>
               Ge(v.latency_improvement_percent, FromInt(50))
        /\ v.meets_resource_target <=>
               (\/ Ge(v.memory_improvement_percent, FromInt(70))
                \/ Ge(v.cpu_improvement_percent, FromInt(70)))
        /\ v.meets_error_target <=> Le(v.error_rate_rust, Rat(1, 2))
        /\ v.overall_success <=>
               (/\ v.meets_latency_target
                /\ v.meets_resource_target
                /\ v.meets_error_target)

\* a validation met the latency and resource targets and missed the error
\* target, so it is not a success
C27_Witness ==
    /\ IsSome(validation_result)
    /\ Unwrap(validation_result).meets_latency_target
    /\ Unwrap(validation_result).meets_resource_target
    /\ ~Unwrap(validation_result).meets_error_target
    /\ ~Unwrap(validation_result).overall_success

\* C29: the baseline changes only through set_baseline, which stores the
\* snapshots it is given: record, current_metrics, validate and the
\* monitoring and gatekeeper ticks leave it unchanged; and validate compares
\* the current metrics against the snapshots of the baseline as last set,
\* however many requests were recorded since.
C29_BaselineOnlySet ==
    [][/\ baseline' # baseline =>
              \E r \in MonitorBaselineRustP99s, l \in MonitorBaselineLegacyP99s :
                  /\ set_baseline(BaselineMetrics(r), BaselineMetrics(l))
                  /\ Unwrap(baseline').rust_metrics = BaselineMetrics(r)
                  /\ Unwrap(baseline').legacy_metrics = BaselineMetrics(l)
       /\ (MonitorTick /\ BothWindowsAndBaseline) =>
              LET bl == Unwrap(baseline).legacy_metrics
                  current == Unwrap(get_current_metrics("rust"))
                  v == Unwrap(validation_result')
              IN  /\ bl.p99_latency_ms > 0 =>
                         FEq(v.latency_improvement_percent,
                             Rat((bl.p99_latency_ms - current.p99_latency_ms) * 100,
                                 bl.p99_latency_ms))
                  /\ FEq(v.memory_improvement_percent,
                         Rat((bl.memory_usage_mb - current.memory_usage_mb) * 100,
                             bl.memory_usage_mb))
                  /\ FEq(v.cpu_improvement_percent,
                         Rat((bl.cpu_usage_percent - current.cpu_usage_percent) * 100,
                             bl.cpu_usage_percent))]_vars

\* two requests were recorded for the new backend and the validation on
\* record compares its p99 of 110 with the legacy p99 of 1000 of the baseline
C29_Witness ==
    /\ rust_requests = 2
    /\ IsSome(baseline)
    /\ Unwrap(baseline).legacy_metrics.p99_latency_ms = 1000
    /\ IsSome(validation_result)
    /\ FEq(Unwrap(validation_result).latency_improvement_percent, FromInt(89))
    /\ IsSome(status)
    /\ metrics_result # None

(***************************************************************************)
(* Properties of the health check at the degradation threshold (checked    *)
(* under SpecHealth)                                                       *)
(***************************************************************************)
\* the new backend's current p99 exceeds the baseline legacy p99 by strictly
\* more than 10% of the baseline legacy p99
DegradedBeyondThreshold ==
    LET current == Unwrap(get_current_metrics("rust")).p99_latency_ms
        base == Unwrap(baseline).legacy_metrics.p99_latency_ms
    IN  (current - base) * 10 > base

\* C28: outside the cooldown window, with a baseline set and both windows
\* non-empty, check_health returns is_healthy = false with a reason whenever
\* the new backend's current p99 exceeds the baseline legacy p99 by strictly
\* more than 10% of it; a degradation of exactly 10% or less, with the error
\* rate within its threshold, is reported healthy with no reason.
C28_LatencyDegradation ==
    [][(HealthCheckStep /\ NoRecentRollback /\ BothWindowsAndBaseline)
         => /\ DegradedBeyondThreshold => Unhealthy(status')
            /\ (~DegradedBeyondThreshold /\ ~ErrorRateAbove)
                   => Healthy(status')]_vars

\* the check on record found a degradation of exactly 10% and is healthy;
\* no rollback has been made
C28_Witness ==
    /\ last_rollback = None
    /\ BothWindowsAndBaseline
    /\ Healthy(status)
    /\ FEq(Unwrap(status).latency_degradation_percent, FromInt(10))

(***************************************************************************)
(* Properties of the rollback alert (checked under SpecAlert)              *)
(***************************************************************************)
\* the configured webhook URL begins with http
UrlBeginsWithHttp ==
    LET url == config.canary_rollout.webhook_url
    IN  Len(url) >= 4 /\ SubSeq(url, 1, 4) = <<"h", "t", "t", "p">>

\* C30: during a rollback the alert webhook is sent at most once, and only
\* when the configured webhook URL begins with http; whether delivery
\* succeeds, returns a non-success status or fails in transport, the
\* rollback ends in the same state (the timestamp recorded, the same target
\* percentage), nothing is sent again, and the monitoring loop can take
\* its next tick.
C30_AlertOnceOutcomeIgnored ==
    /\ [][RollbackStep =>
             /\ webhook_posts' =
                    IF UrlBeginsWithHttp
                      THEN Append(webhook_posts,
                                  [reason |-> gk_log'.reason,
                                   from |-> config.canary_rollout.rollout_percentage,
                                   to |-> ExpectedRollbackTarget])
                      ELSE webhook_posts
             /\ last_rollback' = Some(now)
             /\ gk_log'.event = "ROLLBACK EXECUTED"
             /\ gk_log'.to = ExpectedRollbackTarget
             /\ config' = config]_vars
    /\ [][~RollbackStep => webhook_posts' = webhook_posts]_vars
    /\ [](gk_log.event = "ROLLBACK EXECUTED" => ENABLED GatekeeperTick)

\* a rollback was made whose alert failed in transport: one alert was sent
\* and the timestamp is recorded
C30_Witness ==
    /\ gk_log.event = "ROLLBACK EXECUTED"
    /\ gk_log.alert = "Error sending rollback alert"
    /\ UrlBeginsWithHttp
    /\ Len(webhook_posts) = 1
    /\ last_rollback = Some(now)
    /\ IsSome(status)

\* ---------------------------------------------------------------------
\* Reload ordering
\* ---------------------------------------------------------------------

\* the reload of event i has run to its end: stored and handed to send
ReloadFinished(i) ==
    /\ i \in DOMAIN reloads
    /\ reloads[i].load_ok
    /\ reloads[i].pc \in {"published", "no_subscribers"}

\* the stored snapshot is the one loaded for event i
CurrentIs(i) ==
    /\ config.canary_rollout = Unwrap(reloads[i].loaded).canary_rollout
    /\ config.mirror = Unwrap(reloads[i].loaded).mirror

C34_StatusFieldsAgree ==
    IsSome(status) =>
        /\ ~Unwrap(status).is_healthy <=> IsSome(Unwrap(status).rollback_reason)
        /\ Unwrap(status).rollback_triggered <=> ~Unwrap(status).is_healthy

\* check_health has returned an unhealthy status outside the cooldown
C34_Witness ==
    /\ IsSome(status)
    /\ ~Unwrap(status).is_healthy
    /\ IsSome(Unwrap(status).rollback_reason)
    /\ ~in_cooldown

\* ---------------------------------------------------------------------
\* The direction of a rollback
\* ---------------------------------------------------------------------

\* C35: a rollback never raises the rollout: the target percentage that
\* trigger_rollback computes, logs and reports in the alert is less than
\* or equal to the current rollout_percentage.
C35_RollbackNeverRaises ==
    gk_log.event = "ROLLBACK EXECUTED" => gk_log.to <= gk_log.from

\* ---------------------------------------------------------------------
\* The divisions of validate_performance
\* ---------------------------------------------------------------------

\* C36: validate_performance never divides by zero: for every stored
\* baseline and every current metrics, each improvement percentage of the
\* validation it returns is a finite number.
C36_ImprovementsFinite ==
    IsSome(validation_result) =>
        /\ IsFinite(Unwrap(validation_result).latency_improvement_percent)
        /\ IsFinite(Unwrap(validation_result).memory_improvement_percent)
        /\ IsFinite(Unwrap(validation_result).cpu_improvement_percent)

\* ---------------------------------------------------------------------
\* The exposition counters of a canary request
\* ---------------------------------------------------------------------

\* C37: each request passing through the canary router with canary
\* enabled increments the exposition total-requests counter and its
\* backend's request counter exactly once, and the 5xx counter at most
\* once, on every outcome of either path.
C37_CountedOnce ==
    [][CanaryCompletes =>
           /\ gateway_metrics'.requests_total = gateway_metrics.requests_total + 1
           /\ gateway_metrics'.errors_5xx_total
                  \in {gateway_metrics.errors_5xx_total,
                       gateway_metrics.errors_5xx_total + 1}
           /\ IF Unwrap(canary_req).awaiting = "handler"
                THEN /\ gateway_metrics'.rust_requests_total =
                            gateway_metrics.rust_requests_total + 1
                     /\ gateway_metrics'.legacy_requests_total =
                            gateway_metrics.legacy_requests_total
                ELSE /\ gateway_metrics'.legacy_requests_total =
                            gateway_metrics.legacy_requests_total + 1
                     /\ gateway_metrics'.rust_requests_total =
                            gateway_metrics.rust_requests_total]_vars

\* ---------------------------------------------------------------------
\* The Performance Monitor under concurrent calls
\* ---------------------------------------------------------------------

\* C33: every metrics value get_current_metrics returns has an error count
\* no greater than its request count, so that its error_rate lies in
\* [0, 100], also when record_request runs beside the read.
C33_ErrorRateBounded ==
    (IsSome(metrics_result) /\ IsSome(Unwrap(metrics_result).metrics))
        => /\ Ge(Unwrap(Unwrap(metrics_result).metrics).error_rate, FromInt(0))
           /\ Le(Unwrap(Unwrap(metrics_result).metrics).error_rate, FromInt(100))


\* the Mutex the next step of a reading call needs, if the call is running
CallWaitsFor(c) ==
    CASE calls[c].pc = "lock_latencies" -> Some(latencies_of(calls[c].gateway_type))
      [] calls[c].pc = "lock_requests" -> Some(requests_of(calls[c].gateway_type))
      [] calls[c].pc = "lock_errors" -> Some(errors_of(calls[c].gateway_type))
      [] calls[c].pc = "lock_baseline" -> Some("baseline")
      [] OTHER -> None

\* the Mutex the next step of a record_request call needs
RecorderWaitsFor(t) ==
    CASE recorders[t].pc = "pushed" -> Some(requests_of(recorders[t].gateway_type))
      [] recorders[t].pc = "counted" -> Some(errors_of(recorders[t].gateway_type))
      [] OTHER -> None

CallBlocked(c) ==
    IsSome(CallWaitsFor(c)) /\ ~MutexFree(Unwrap(CallWaitsFor(c)))
RecorderBlocked(t) ==
    IsSome(RecorderWaitsFor(t)) /\ ~MutexFree(Unwrap(RecorderWaitsFor(t)))

CallRunning(c) == calls[c].pc # "idle"
RecorderRunning(t) == recorders[t].pc # "idle"

\* C39: the Performance Monitor is deadlock-free under every interleaving
\* of record_request, get_current_metrics, set_baseline, get_baseline and
\* validate_performance: a held lock belongs to a call that is running and
\* is not itself waiting (no cyclic wait among the latency, request-counter,
\* error-counter and baseline locks), and while any call is running some
\* running call can take its next step.
C39_DeadlockFree ==
    /\ \A mutex \in MonitorMutexes :
           IsSome(monitor_locks[mutex])
               => /\ CallRunning(Unwrap(monitor_locks[mutex]))
                  /\ ~CallBlocked(Unwrap(monitor_locks[mutex]))
    /\ ((\E c \in CallerIds : CallRunning(c))
            \/ (\E t \in RecorderIds : RecorderRunning(t)))
           => \/ \E c \in CallerIds : CallRunning(c) /\ ~CallBlocked(c)
              \/ \E t \in RecorderIds : RecorderRunning(t) /\ ~RecorderBlocked(t)

\* the monitoring loop holds the window of the legacy backend inside
\* validate_performance while the other reader waits for that window and a
\* record_request call is between its window and its request counter
C39_Witness ==
    /\ monitor_locks["legacy_latencies"] = Some(MonitoringLoop)
    /\ calls[MonitoringLoop].op = "validate_performance"
    /\ CallBlocked(MetricsCaller)
    /\ \E t \in RecorderIds : recorders[t].pc = "pushed"

\* ---------------------------------------------------------------------
\* Snapshots seen by one request, and reloads that enable a layer
\* ---------------------------------------------------------------------

AppliedAtArrival ==
    Unwrap(reloads[Unwrap(pipeline).applied[Len(Unwrap(pipeline).applied)]].loaded)

\* the request has been answered, it arrived after a reload had been
\* stored, and no reload was stored while it was handled
ServedAfterReload ==
    /\ IsSome(pipeline)
    /\ Unwrap(pipeline).pc = "done"
    /\ Unwrap(pipeline).applied # <<>>
    /\ Unwrap(pipeline).applied = swap_order

====
